---- MODULE Spec2Model ----
(***************************************************************************)
(* Model of the generation endpoints of the TikTok Creative Factory        *)
(* (src/src/app/page.tsx) and of the prompt / variation helpers they call  *)
(* (src/unnamed/part_004, the vertexAI library).                           *)
(*                                                                         *)
(* Strings of the program are TLA+ strings.  A JavaScript undefined that   *)
(* is interpolated into a template literal is the string "undefined"; a    *)
(* configuration field that is absent is the empty string (the code only   *)
(* tests such fields for truthiness).                                      *)
(***************************************************************************)
EXTENDS Integers, Sequences, FiniteSets, TLC

\* ------------------------------------------------------------------ bounds
MaxVariants == 3
MaxAnchors == 4
MaxExtraSpecs == 5

\* ------------------------------------------------------- common vocabulary
Undefined == "undefined"

Truthy(s) == s \notin {"", Undefined}

Factors == {"lighting", "environment", "camera-angle", "materials"}

\* =========================================================================
\* Variation Generator  (src/unnamed/part_004)
\* =========================================================================

ApiKeyMessage == "GOOGLE_API_KEY or GEMINI_API_KEY must be set in .env.local"

\* getClient(): throws when no API key is configured.
GetClient(apiKey) ==
    IF apiKey THEN [threw |-> FALSE, msg |-> ""]
    ELSE [threw |-> TRUE, msg |-> ApiKeyMessage]

lightingOptions ==
    << "soft natural lighting with diffused shadows",
       "dramatic studio lighting with high contrast",
       "golden hour glow with warm rim lighting",
       "cool blue tones with ethereal atmosphere",
       "warm ambient light with subtle gradients" >>

environmentOptions ==
    << "minimal white background with clean aesthetic",
       "textured natural backdrop with organic elements",
       "lifestyle setting with contextual props",
       "abstract gradient background with modern feel",
       "outdoor environment with natural lighting" >>

cameraOptions ==
    << "eye-level front view for direct engagement",
       "slight overhead angle at 15 degrees",
       "low angle hero shot creating empowerment",
       "dynamic 3/4 view with depth",
       "top-down flat lay composition" >>

materialOptions ==
    << "matte surfaces with soft texture",
       "glossy reflective surfaces with subtle highlights",
       "textured organic materials with natural grain",
       "metallic accents with premium finish",
       "soft fabric textures with gentle folds" >>

\* FallbackVariation that leaves the field of an unrequested factor blank
FallbackVariationBlank(i, factors) ==
    [ lighting    |-> IF "lighting" \in factors
                      THEN lightingOptions[(i % Len(lightingOptions)) + 1] ELSE "",
      environment |-> IF "environment" \in factors
                      THEN environmentOptions[(i % Len(environmentOptions)) + 1] ELSE "",
      cameraAngle |-> IF "camera-angle" \in factors
                      THEN cameraOptions[(i % Len(cameraOptions)) + 1] ELSE "",
      materials   |-> IF "materials" \in factors
                      THEN materialOptions[(i % Len(materialOptions)) + 1] ELSE "" ]

\* One entry of generateFallbackVariations; i is the 0-based loop index.
FallbackVariation(i, factors) ==
    [ lighting    |-> IF "lighting" \in factors
                      THEN lightingOptions[(i % Len(lightingOptions)) + 1]
                      ELSE "standard studio lighting",
      environment |-> IF "environment" \in factors
                      THEN environmentOptions[(i % Len(environmentOptions)) + 1]
                      ELSE "clean studio background",
      cameraAngle |-> IF "camera-angle" \in factors
                      THEN cameraOptions[(i % Len(cameraOptions)) + 1]
                      ELSE "standard product angle",
      materials   |-> IF "materials" \in factors
                      THEN materialOptions[(i % Len(materialOptions)) + 1]
                      ELSE "natural product materials" ]

\* generateFallbackVariations(count, factors): the loop runs for i < count.
generateFallbackVariations(count, factors) ==
    [ j \in 1..(IF count > 0 THEN count ELSE 0) |-> FallbackVariation(j - 1, factors) ]

\* A spec object as the text model may write it.  shape "full" has the four
\* keys, shape "requested" only the keys of the requested factors.
AiVariation(j, shape, factors) ==
    [ lighting    |-> IF shape = "full" \/ "lighting" \in factors
                      THEN "ai lighting" ELSE Undefined,
      environment |-> IF shape = "full" \/ "environment" \in factors
                      THEN "ai environment" ELSE Undefined,
      cameraAngle |-> IF shape = "full" \/ "camera-angle" \in factors
                      THEN "ai camera angle" ELSE Undefined,
      materials   |-> IF shape = "full" \/ "materials" \in factors
                      THEN "ai materials" ELSE Undefined ]

\* The values a variable typed VariationSpec[] can hold at run time.
ArrayValue(items) == [kind |-> "array", items |-> items]

NonArrayValue(kind) == [kind |-> kind, items |-> << >>]

\* The response text of the model: an optional opening fence, a JSON
\* document (or something that is not JSON) and an optional closing fence.
\* three backquotes followed by "json" (or "jso") and an optional newline
FenceJson == "fence-json"

\* three backquotes with no language tag
FenceBare == "fence-bare"

\* The fence stripping of generateVariationSpecs, applied only when the text
\* starts with three backquotes: the first replace removes every fence that
\* carries the json tag, the second one a fence at the very end of the text.
StripFences(text) ==
    IF text.prefix # ""
    THEN [ text EXCEPT !.prefix = IF text.prefix = FenceJson THEN "" ELSE text.prefix,
                       !.suffix = "" ]
    ELSE text

\* JSON.parse(cleanJson): fails unless the whole text is one JSON document.
JsonParse(text, factors) ==
    IF text.prefix # "" \/ text.suffix # "" \/ text.body.kind = "invalid"
    THEN [threw |-> TRUE, value |-> NonArrayValue("none")]
    ELSE IF text.body.kind = "array"
         THEN [threw |-> FALSE,
               value |-> ArrayValue([ j \in 1..text.body.n |->
                                        AiVariation(j, text.body.shape, factors) ])]
         ELSE [threw |-> FALSE, value |-> NonArrayValue(text.body.kind)]

\* variations.length inside the template literal of the log line:
\* a TypeError when the parsed value is null.
LengthThrows(value) == value.kind = "null"

EmptyArrayText == [prefix |-> "", body |-> [kind |-> "array", n |-> 0, shape |-> "full"], suffix |-> ""]

\* generateVariationSpecs(baseCreativeDirection, brandGuidelines,
\* varianceFactors, variantCount) with the outcome of the external call:
\* upstream.outcome is "throw", "notext" (response.text empty) or "text".
generateVariationSpecs(apiKey, factors, variantCount, upstream) ==
    IF variantCount <= 1 \/ factors = {}
    THEN [threw |-> FALSE, msg |-> "", value |-> ArrayValue(<< >>)]
    ELSE IF GetClient(apiKey).threw
    THEN [threw |-> TRUE, msg |-> GetClient(apiKey).msg,
          value |-> NonArrayValue("none")]
    ELSE LET Fallback == [threw |-> FALSE, msg |-> "",
                          value |-> ArrayValue(generateFallbackVariations(variantCount - 1, factors))]
         IN IF upstream.outcome = "throw" THEN Fallback
            ELSE LET responseText == IF upstream.outcome = "notext"
                                     THEN EmptyArrayText ELSE upstream.text
                     parsed == JsonParse(StripFences(responseText), factors)
                 IN IF parsed.threw \/ LengthThrows(parsed.value) THEN Fallback
                    ELSE [threw |-> FALSE, msg |-> "",
                          value |-> parsed.value]

\* =========================================================================
\* Prompt Assembler  (src/unnamed/part_004)
\* =========================================================================
\* A prompt is the sequence of its sections with a separator item between
\* two sections.  A section has a header (name, and the numbers the header
\* or the body interpolates) and the lines of its body as label/value pairs.

Line(label, value) == [label |-> label, value |-> value]

Section(name, refs, body) == [name |-> name, refs |-> refs, body |-> body]

\* the "\n\n---\n\n" of sections.join
Separator == Section("---", << >>, << >>)

RECURSIVE Join(_)

\* Join that writes the separator after every section
JoinTrailing(sections) ==
    IF Len(sections) = 0 THEN << >>
    ELSE [ k \in 1..(2 * Len(sections)) |->
             IF k % 2 = 1 THEN sections[(k + 1) \div 2] ELSE Separator ]

\* sections.join("\n\n---\n\n")
Join(sections) ==
    IF Len(sections) = 0 THEN << >>
    ELSE IF Len(sections) = 1 THEN << sections[1] >>
    ELSE << sections[1], Separator >> \o Join(Tail(sections))

ImagePresetIds == {"product-promotion-shot"}

\* CREATIVE_TREND_PRESETS: id -> prompt text of the catalog entry
CREATIVE_TREND_PRESETS == [id \in ImagePresetIds |-> "preset prompt of product-promotion-shot"]

VideoPresetIds == {"fast-product-showcase"}

\* VIDEO_CREATIVE_TREND_PRESETS: id -> prompt text of the catalog entry
VIDEO_CREATIVE_TREND_PRESETS == [id \in VideoPresetIds |-> "preset prompt of fast-product-showcase"]

\* The catalogs are plain objects (reduce into {}), so a lookup by a name
\* that Object.prototype defines finds the inherited member, which is truthy
\* and has no prompt property.
ObjectPrototypeKeys ==
    { "constructor", "toString", "toLocaleString", "valueOf", "hasOwnProperty",
      "isPrototypeOf", "propertyIsEnumerable", "__proto__" }

\* PresetLookup that only sees the catalog's own entries
PresetLookupOwn(catalog, presetId) ==
    IF presetId \in DOMAIN catalog THEN << catalog[presetId] >> ELSE << >>

\* catalog[presetId] when it is truthy, as the text of its prompt property
PresetLookup(catalog, presetId) ==
    IF presetId \in DOMAIN catalog THEN << catalog[presetId] >>
    ELSE IF presetId \in ObjectPrototypeKeys THEN << Undefined >>
    ELSE << >>

\* The creative-trend section shared by both builders: at most one section.
CreativeTrendSections(creativeTrend, catalog) ==
    IF creativeTrend.type = "preset" /\ Truthy(creativeTrend.presetId)
    THEN IF Len(PresetLookup(catalog, creativeTrend.presetId)) > 0
         THEN << Section("CREATIVE TREND", << >>,
                         << Line("", PresetLookup(catalog, creativeTrend.presetId)[1]) >>) >>
         ELSE << >>
    ELSE IF creativeTrend.type = "ai-generated" /\ Truthy(creativeTrend.customPrompt)
         THEN << Section("CREATIVE TREND", << >>,
                         << Line("", creativeTrend.customPrompt) >>) >>
         ELSE << >>

DefaultBrandGuidelines ==
    "Maintain professional, modern brand aesthetic with clean compositions and premium quality."

ImageAspectGuidance(aspectRatio) ==
    CASE aspectRatio = "9:16" -> "Optimize for vertical mobile viewing with focal point in upper-middle third"
      [] aspectRatio = "1:1"  -> "Balanced, centered composition suitable for Instagram feed"
      [] aspectRatio = "4:5"  -> "Slightly vertical composition with breathing room at top and bottom"
      [] aspectRatio = "16:9" -> "Cinematic wide composition with horizontal emphasis"
      [] OTHER -> ""

\* The lines of the variation section: one line per truthy field.
VariationParts(spec) ==
    (IF Truthy(spec.lighting) THEN << Line("Lighting", spec.lighting) >> ELSE << >>)
    \o (IF Truthy(spec.environment) THEN << Line("Environment", spec.environment) >> ELSE << >>)
    \o (IF Truthy(spec.cameraAngle) THEN << Line("Camera Angle", spec.cameraAngle) >> ELSE << >>)
    \o (IF Truthy(spec.materials) THEN << Line("Materials", spec.materials) >> ELSE << >>)

\* InteractionSections without the test of the reference image count
InteractionSectionsAnyCount(params) ==
    IF Truthy(params.referenceImageInteraction)
    THEN << Section("REFERENCE IMAGES INTERACTION", << >>,
                    << Line("", params.referenceImageInteraction),
                       Line("", "Composition Requirements") >>) >>
    ELSE << >>

\* section 2 of buildStructuredPrompt
InteractionSections(params) ==
    IF Truthy(params.referenceImageInteraction) /\ params.referenceImageCount > 1
    THEN << Section("REFERENCE IMAGES INTERACTION", << >>,
                    << Line("", params.referenceImageInteraction),
                       Line("", "Composition Requirements") >>) >>
    ELSE << >>

\* section 6 of buildStructuredPrompt
MoodboardSections(params) ==
    IF params.moodboardImageCount > 0
    THEN << Section("LOOK & FEEL REFERENCE (MOODBOARD)",
                    [ k \in 1..params.moodboardImageCount |->
                        params.moodboardStartIndex + (k - 1) + 1 ],
                    << Line("", "Draw inspiration from the visual style shown in") >>) >>
    ELSE << >>

\* section 8 of buildStructuredPrompt
VariationSections(params) ==
    IF params.variantNumber > 1 /\ Len(params.variationSpecs) > 0
       /\ Len(VariationParts(params.variationSpecs[1])) > 0
    THEN << Section("VARIATION SPECIFICATIONS FOR VARIANT", << params.variantNumber >>,
                    VariationParts(params.variationSpecs[1])) >>
    ELSE << >>

\* The sections buildStructuredPrompt pushes, in push order.  variantNumber 0
\* and variationSpecs << >> stand for the absent optional parameters.
StructuredPromptSections(params) ==
    InteractionSections(params)
    \o CreativeTrendSections(params.creativeTrend, CREATIVE_TREND_PRESETS)
    \o << Section("BRAND GUIDELINES", << >>,
                  << Line("", IF Truthy(params.brandGuidelines)
                              THEN params.brandGuidelines ELSE DefaultBrandGuidelines) >>) >>
    \o << Section("COLOR PALETTE", << >>,
                  << Line("Primary Color", params.primaryColor),
                     Line("Secondary Color", params.secondaryColor) >>) >>
    \o MoodboardSections(params)
    \o << Section("IMAGE SPECIFICATIONS", << >>,
                  << Line("Generate image in", params.aspectRatio),
                     Line("", ImageAspectGuidance(params.aspectRatio)) >>) >>
    \o VariationSections(params)

buildStructuredPrompt(params) == Join(StructuredPromptSections(params))

\* ---- video prompt ------------------------------------------------------
Durations == {"4s", "6s", "8s"}

\* effectiveDuration.replace('s', '')
StripS(d) == CASE d = "4s" -> "4" [] d = "6s" -> "6" [] d = "8s" -> "8" [] OTHER -> d

\* parseInt of a digit string
ParseInt(t) == CASE t = "4" -> 4 [] t = "6" -> 6 [] t = "8" -> 8 [] OTHER -> 0

\* purposeLabels[img.purpose] of buildVideoStructuredPrompt
PurposeLabel(img) ==
    CASE img.purpose = "character"   -> "Main influencer/character"
      [] img.purpose = "product"     -> "Product to be featured"
      [] img.purpose = "environment" -> "Brand environment/location"
      [] img.purpose = "keyframe"    -> "Key visual moment"
      [] img.purpose = "style-guide" -> "Visual style reference"
      [] img.purpose = "custom"      -> IF Truthy(img.customDescription)
                                        THEN img.customDescription ELSE "Custom reference"
      [] OTHER -> Undefined

\* The sections buildVideoStructuredPrompt pushes, in push order.  A line
\* labelled "duration" carries a duration string ("8s"), a line labelled
\* "seconds" a number of seconds written out in the text; refs of the
\* specification section are the interpolated durationSeconds.
VideoPromptSections(params) ==
    LET hasReferenceImages == Len(params.referenceImages) > 0
        effectiveDuration == IF hasReferenceImages THEN "8s" ELSE params.duration
        durationSeconds == ParseInt(StripS(effectiveDuration))
    IN (IF hasReferenceImages
        THEN << Section("REFERENCE IMAGES",
                        [ k \in 1..Len(params.referenceImages) |-> params.referenceImages[k].index ],
                        [ k \in 1..Len(params.referenceImages) |->
                            Line("image", PurposeLabel(params.referenceImages[k])) ]
                        \o << Line("seconds", "8"), Line("seconds", "8") >>) >>
        ELSE << >>)
       \o CreativeTrendSections(params.creativeTrend, VIDEO_CREATIVE_TREND_PRESETS)
       \o << Section("BRAND GUIDELINES", << >>,
                     IF Truthy(params.brandGuidelines)
                     THEN << Line("", params.brandGuidelines) >>
                     ELSE << Line("", DefaultBrandGuidelines),
                             Line("duration", effectiveDuration),
                             Line("duration", effectiveDuration) >>) >>
       \o << Section("COLOR PALETTE", << >>,
                     << Line("Primary Color", params.primaryColor),
                        Line("Secondary Color", params.secondaryColor),
                        Line("duration", effectiveDuration),
                        Line("duration", effectiveDuration),
                        Line("seconds", StripS(effectiveDuration)) >>) >>
       \o << Section("NARRATIVE / STORYLINE", << >>,
                     << Line("", params.narrative) >>
                     \o (IF hasReferenceImages THEN << Line("seconds", "8") >> ELSE << >>)) >>
       \o << Section("VIDEO SPECIFICATIONS", << durationSeconds, durationSeconds >>,
                     << Line("Generate video in", params.aspectRatio),
                        IF hasReferenceImages THEN Line("seconds", "8")
                        ELSE Line("duration", effectiveDuration) >>) >>

buildVideoStructuredPrompt(params) == Join(VideoPromptSections(params))

\* ---- legacy prompt -----------------------------------------------------
\* buildBasePrompt(config, imageCount): the pushed parts, joined by "\n".
buildBasePrompt(config, imageCount) ==
    (IF config.protocolType = "IMAGE"
     THEN << Line("", "Generate a high-quality product image") >>
          \o (IF imageCount > 0 THEN << Line("", "Use the reference image(s)") >> ELSE << >>)
     ELSE << Line("", "Generate a seamless video loop"),
             Line("Target duration",
                  IF Truthy(config.videoLength) THEN config.videoLength ELSE "6s") >>)
    \o (IF Truthy(config.brandGuidelines)
        THEN << Line("Brand Guidelines", config.brandGuidelines) >> ELSE << >>)
    \o (IF Truthy(config.primaryColor)
        THEN << Line("Primary brand color", config.primaryColor) >> ELSE << >>)
    \o (IF Truthy(config.secondaryColor)
        THEN << Line("Secondary brand color", config.secondaryColor) >> ELSE << >>)
    \o (IF Truthy(config.narrative)
        THEN << Line("Storyline", config.narrative) >> ELSE << >>)
    \o << Line("", "IMPORTANT: Maintain 100% product fidelity throughout.") >>

TrendTypes == {"reali-tea", "emotional-roi", "curiosity-detours", "go-analogue", "standard-promo"}

\* buildTrendPrompt(basePrompt, trendType, contentType): modifier, blank
\* line, base prompt.  The legacy prompt is one unnamed section.
buildTrendPrompt(basePrompt, trendType, contentType) ==
    << Section("", << >>,
               << Line(contentType, IF trendType \in TrendTypes THEN trendType ELSE "standard-promo") >>
               \o basePrompt) >>

\* =========================================================================
\* External Generation Client wrappers  (src/unnamed/part_004)
\* =========================================================================
\* Each wrapper is applied to the outcome of the provider call it awaits.

TrendOutcomes == {"throw", "text", "notext"}

\* generateCreativeTrendFromDescription: getClient() is called before the
\* try block; a provider failure is rethrown with a fixed message.
generateCreativeTrendFromDescription(apiKey, upstream) ==
    IF GetClient(apiKey).threw
    THEN [threw |-> TRUE, msg |-> GetClient(apiKey).msg, value |-> ""]
    ELSE IF upstream = "throw"
    THEN [threw |-> TRUE, msg |-> "Failed to generate creative trend from description", value |-> ""]
    ELSE [threw |-> FALSE, msg |-> "",
          value |-> IF upstream = "text" THEN "ai generated creative trend" ELSE ""]

\* generateVideoCreativeTrendFromDescription: same structure.
generateVideoCreativeTrendFromDescription(apiKey, upstream) ==
    IF GetClient(apiKey).threw
    THEN [threw |-> TRUE, msg |-> GetClient(apiKey).msg, value |-> ""]
    ELSE IF upstream = "throw"
    THEN [threw |-> TRUE, msg |-> "Failed to generate video creative trend from description", value |-> ""]
    ELSE [threw |-> FALSE, msg |-> "",
          value |-> IF upstream = "text" THEN "ai generated video creative trend" ELSE ""]

ImageOutcomes == {"image", "noimage", "throw"}

\* generateImage: resolves only when the response carries an image part.
generateImage(apiKey, upstream) ==
    IF GetClient(apiKey).threw
    THEN [threw |-> TRUE, msg |-> GetClient(apiKey).msg]
    ELSE IF upstream = "image" THEN [threw |-> FALSE, msg |-> ""]
    ELSE IF upstream = "noimage"
    THEN [threw |-> TRUE, msg |-> "Image generation failed: Model did not return an image."]
    ELSE [threw |-> TRUE, msg |-> "Image generation failed: provider error"]

VideoOutcomes == {"video", "timeout", "novideo", "throw"}

\* generateVideo, reduced to the classes of its outcome.
generateVideo(apiKey, upstream) ==
    IF GetClient(apiKey).threw
    THEN [threw |-> TRUE, msg |-> GetClient(apiKey).msg]
    ELSE IF upstream = "video" THEN [threw |-> FALSE, msg |-> ""]
    ELSE IF upstream = "timeout"
    THEN [threw |-> TRUE, msg |-> "Video generation failed: Video generation timed out after 5 minutes"]
    ELSE IF upstream = "novideo"
    THEN [threw |-> TRUE, msg |-> "Video generation failed: No video in response"]
    ELSE [threw |-> TRUE, msg |-> "Video generation failed: provider error"]

\* generateAIStorylines: upstream.outcome is "throw", "unusable" (not JSON,
\* or not an array) or "array" with upstream.n strings.  The result is always
\* variantCount strings; only getClient() can make it throw.
generateAIStorylines(apiKey, variantCount, upstream) ==
    IF GetClient(apiKey).threw
    THEN [threw |-> TRUE, msg |-> GetClient(apiKey).msg, value |-> << >>]
    ELSE [threw |-> FALSE, msg |-> "",
          value |-> [ j \in 1..variantCount |->
                        IF upstream.outcome \in {"throw", "unusable"} THEN "Creative variant"
                        ELSE IF j <= upstream.n THEN "ai storyline"
                        ELSE "Additional creative variant" ]]

\* =========================================================================
\* Generation Dispatcher  (src/src/app/page.tsx, POST)
\* =========================================================================
VARIABLES
    endpoint,               \* "structured" (POST at line 148) or "legacy" (POST at line 525)
    apiKey,                 \* whether GEMINI_API_KEY / GOOGLE_API_KEY is set
    form,                   \* the submitted multipart form
    pc,                     \* position of the start() callback
    events,                 \* what has been enqueued on the controller, in order
    closed,                 \* controller.close() has been called
    calls,                  \* the external calls started so far, in order
    aiGeneratedTrend,
    aiGeneratedVideoTrend,
    structuredPrompt,       \* structuredPrompt (structured) / trendPrompt (legacy)
    variationSpecs,
    aiStorylines,
    i,
    results

dispatcherVars == << endpoint, apiKey, form, pc, events, closed, calls, aiGeneratedTrend,
                     aiGeneratedVideoTrend, structuredPrompt, variationSpecs, aiStorylines,
                     i, results >>

\* ---- the request -------------------------------------------------------
\* An optional number is << >> (absent) or << n >>; an optional list likewise.
DefaultConfig ==
    [ protocolType |-> "IMAGE", trendType |-> "standard-promo", brandGuidelines |-> "",
      primaryColor |-> "", secondaryColor |-> "", aspectRatio |-> "",
      variantCount |-> << >>, varianceFactors |-> << >>, useAIStoryline |-> FALSE,
      narrative |-> "", videoLength |-> "",
      useImageInteraction |-> FALSE, imageInteractionDescription |-> "",
      creativeTrendType |-> "", selectedPreset |-> "", aiTrendDescription |-> "",
      imagePurposes |-> << >>, customPurposeDescriptions |-> << >>, narrativeTemplate |-> "",
      videoCreativeTrendType |-> "", selectedVideoPreset |-> "", aiVideoTrendDescription |-> "" ]

Form(kind, config, parts) == [kind |-> kind, config |-> config, parts |-> parts]

\* key.startsWith("anchorImage_") / key.startsWith("productImage_") / key === "lookAndFeel"
KeyClass(key) ==
    CASE key \in {"anchorImage_0", "anchorImage_1", "anchorImage_2", "anchorImage_3",
                  "anchorImage_4", "anchorImage_5"} -> "anchor"
      [] key \in {"productImage_0", "productImage_1", "productImage_2"} -> "product"
      [] key = "lookAndFeel" -> "lookAndFeel"
      [] OTHER -> "other"

RECURSIVE SelectParts(_, _, _)
\* The positions (1-based, in form order) of the parts whose class is in
\* classes: the buffers pushed by the loop over formData.entries().
SelectParts(parts, classes, from) ==
    IF from > Len(parts) THEN << >>
    ELSE (IF KeyClass(parts[from]) \in classes THEN << from >> ELSE << >>)
         \o SelectParts(parts, classes, from + 1)

uploadedImages(f) == SelectParts(f.parts, {"product", "lookAndFeel"}, 1)

anchorImageBuffers(f) == SelectParts(f.parts, {"anchor"}, 1)

productImageCount(f) == Len(SelectParts(f.parts, {"product"}, 1))

moodboardImageCount(f) == Len(SelectParts(f.parts, {"lookAndFeel"}, 1))

\* config.variantCount || 1
variantCount(config) ==
    IF Len(config.variantCount) = 0 \/ config.variantCount[1] = 0 THEN 1
    ELSE config.variantCount[1]

\* config.varianceFactors && config.varianceFactors.length > 0
HasVarianceFactors(config) ==
    Len(config.varianceFactors) > 0 /\ config.varianceFactors[1] # {}

\* ---- events ------------------------------------------------------------
\* The text of a status event is not modelled, its progress value is.
StatusEvent(progress) ==
    [type |-> "status", progress |-> progress, message |-> "", result |-> << >>,
     bare |-> FALSE, count |-> 0, duration |-> ""]

ErrorEvent(message) ==
    [type |-> "error", progress |-> 0 - 1, message |-> message, result |-> << >>,
     bare |-> FALSE, count |-> 0, duration |-> ""]

\* result: the payload(s); bare: the payload is sent alone, not in a list
ResultEvent(result, bare, count, duration) ==
    [type |-> "result", progress |-> 0 - 1, message |-> "", result |-> result,
     bare |-> bare, count |-> count, duration |-> duration]

Call(fn, prompt, images, duration) ==
    [fn |-> fn, prompt |-> prompt, images |-> images, duration |-> duration]

\* ---- state of the other components -------------------------------------
VARIABLES
    vsIn,                   \* arguments and provider outcome of one generateVariationSpecs call
    vsOut,                  \* what that call produced
    spIn,                   \* the StructuredPromptParams of one buildStructuredPrompt call
    spOut,                  \* the prompt that call returned
    vpIn,                   \* the VideoPromptParams of one buildVideoStructuredPrompt call
    vpOut,                  \* the prompt that call returned
    sent,                   \* the events the endpoint enqueued for the dashboard, in order
    wire,                   \* bytes of the response body not yet delivered to the reader
    decoderPending,         \* bytes the TextDecoder holds back (stream: true)
    buffer,                 \* buffer of the dashboard's read loop
    parsedEvents,           \* positions in sent of the events JSON.parse returned, in order
    statusHistory,          \* positions in sent of the entries of statusHistory
    generationStatus,       \* generationStatus.status
    readerPc,               \* "idle", "reading" or "done"
    videoApiKey,            \* whether an API key is set when generateVideo runs
    videoPc,                \* position of one generateVideo call
    anchorImages,           \* the anchorImages parameter of that call
    providerImages,         \* the images of the generateVideos request, << >> before it
    operation,              \* the provider's operation object: done, and whether it carries a video
    elapsed,                \* elapsed of the poll loop, in milliseconds
    polls,                  \* getVideosOperation calls made so far
    tempFile,               \* the downloaded file: "none", "present" or "removed"
    videoOutcome,           \* << >> while running, then what generateVideo reported
    fbIn,                   \* count and factors of one generateFallbackVariations call
    fbOut,                  \* the list that call returned
    isLoading,              \* state of AuthProvider
    isAuthenticated,        \* state of AuthProvider
    username,               \* state of AuthProvider, << >> for null
    authStorage,            \* the localStorage entry tiktok-creative-auth, << >> when there is none
    authLog,                \* the login and logout calls made so far, with what they returned
    mounted,                \* AuthProvider is part of the page
    files,                  \* files of the FileDropzone, each file a number
    tabAnchorImages,        \* anchorImages of VideoEngineTab
    imagePurposes,          \* imagePurposes of VideoEngineTab
    customPurposeDescriptions,\* customPurposeDescriptions of VideoEngineTab
    tabVideoLength,         \* videoLength of VideoEngineTab
    uploads,                \* the number of files dropped or selected so far
    assigned                \* for every file added, the purpose and description last given to it

variationVars == << vsIn, vsOut >>

promptVars == << spIn, spOut, vpIn, vpOut >>

readerVars == << sent, wire, decoderPending, buffer, parsedEvents, statusHistory,
                 generationStatus, readerPc >>

videoVars == << videoApiKey, videoPc, anchorImages, providerImages, operation, elapsed, polls,
               tempFile, videoOutcome >>

fallbackVars == << fbIn, fbOut >>

authVars == << isLoading, isAuthenticated, username, authStorage, authLog, mounted >>

tabVars == << files, tabAnchorImages, imagePurposes, customPurposeDescriptions, tabVideoLength,
             uploads, assigned >>

\* everything the dispatcher does not touch
nonDispatcherVars == << variationVars, promptVars, readerVars, videoVars, fallbackVars,
                        authVars, tabVars >>

\* everything a generateVariationSpecs call does not touch
nonVariationVars == << dispatcherVars, promptVars, readerVars, videoVars, fallbackVars,
                       authVars, tabVars >>

\* everything a prompt builder call does not touch
nonPromptVars == << dispatcherVars, variationVars, readerVars, videoVars, fallbackVars,
                    authVars, tabVars >>

\* everything the dashboard's stream reader does not touch
nonReaderVars == << dispatcherVars, variationVars, promptVars, videoVars, fallbackVars,
                    authVars, tabVars >>

\* everything a generateVideo call does not touch
nonVideoVars == << dispatcherVars, variationVars, promptVars, readerVars, fallbackVars,
                   authVars, tabVars >>

\* everything a generateFallbackVariations call does not touch
nonFallbackVars == << dispatcherVars, variationVars, promptVars, readerVars, videoVars,
                      authVars, tabVars >>

\* everything the AuthProvider does not touch
nonAuthVars == << dispatcherVars, variationVars, promptVars, readerVars, videoVars,
                  fallbackVars, tabVars >>

\* everything the video tab does not touch
nonTabVars == << dispatcherVars, variationVars, promptVars, readerVars, videoVars, fallbackVars, authVars >>

vars == << dispatcherVars, variationVars, promptVars, readerVars, videoVars, fallbackVars,
           authVars, tabVars >>

\* ---- prompt parameters built by POST -----------------------------------
\* creativeTrendConfig (image) / videoCreativeTrendConfig (video)
TrendConfig(trendType, preset, generated) ==
    IF trendType = "preset" /\ Truthy(preset)
    THEN [type |-> "preset", presetId |-> preset, customPrompt |-> ""]
    ELSE IF trendType = "ai" /\ Truthy(generated)
    THEN [type |-> "ai-generated", presetId |-> "", customPrompt |-> generated]
    ELSE [type |-> "skip", presetId |-> "", customPrompt |-> ""]

Or(value, default) == IF Truthy(value) THEN value ELSE default

structuredPromptParams(f, generated) ==
    [ referenceImageInteraction |->
          IF f.config.useImageInteraction THEN f.config.imageInteractionDescription ELSE "",
      referenceImageCount |-> productImageCount(f),
      creativeTrend |-> TrendConfig(f.config.creativeTrendType, f.config.selectedPreset, generated),
      brandGuidelines |-> f.config.brandGuidelines,
      primaryColor |-> Or(f.config.primaryColor, "#25F4EE"),
      secondaryColor |-> Or(f.config.secondaryColor, "#FE2C55"),
      moodboardImageCount |-> moodboardImageCount(f),
      moodboardStartIndex |-> productImageCount(f),
      aspectRatio |-> Or(f.config.aspectRatio, "9:16"),
      variantNumber |-> 0,
      variationSpecs |-> << >> ]

\* config.imagePurposes?.[k] (0-based k), "" when there is none
PurposeAt(config, k) ==
    IF k < Len(config.imagePurposes) THEN config.imagePurposes[k + 1] ELSE ""

CustomDescriptionAt(config, k) ==
    IF k < Len(config.customPurposeDescriptions)
    THEN config.customPurposeDescriptions[k + 1] ELSE ""

\* anchorImageBuffers.map((_, i) => ({index, purpose, customDescription}))
referenceImages(f) ==
    [ k \in 1..Len(anchorImageBuffers(f)) |->
        [ index |-> k,
          purpose |-> Or(PurposeAt(f.config, k - 1), "product"),
          customDescription |-> IF PurposeAt(f.config, k - 1) = "custom"
                                THEN CustomDescriptionAt(f.config, k - 1) ELSE "" ] ]

hasReferenceImages(f) == Len(anchorImageBuffers(f)) > 0

\* PromptDuration with the default of the locked case
PromptDurationDefaultEight(f) ==
    IF hasReferenceImages(f) THEN "8s" ELSE Or(f.config.videoLength, "8s")

\* the duration field of videoPromptParams (page.tsx line 391)
PromptDuration(f) ==
    IF hasReferenceImages(f) THEN "8s" ELSE Or(f.config.videoLength, "6s")

\* effectiveDuration without the lock
effectiveDurationUnlocked(f) == Or(f.config.videoLength, "6s")

\* effectiveDuration of the generateVideo call (page.tsx line 401)
effectiveDuration(f) ==
    IF hasReferenceImages(f) THEN "8s" ELSE Or(f.config.videoLength, "6s")

videoPromptParams(f, generated) ==
    [ referenceImages |-> referenceImages(f),
      creativeTrend |-> TrendConfig(f.config.videoCreativeTrendType,
                                    f.config.selectedVideoPreset, generated),
      brandGuidelines |-> f.config.brandGuidelines,
      primaryColor |-> Or(f.config.primaryColor, "#25F4EE"),
      secondaryColor |-> Or(f.config.secondaryColor, "#FE2C55"),
      narrative |-> Or(f.config.narrative, "Create an engaging video loop."),
      narrativeTemplate |-> f.config.narrativeTemplate,
      aspectRatio |-> Or(f.config.aspectRatio, "9:16"),
      duration |-> PromptDuration(f) ]

\* ---- per-variant prompt ------------------------------------------------
\* a JSON string that the provider may answer with instead of an array
UpstreamString == << "s", "o", "r", "r", "y" >>

\* variationSpecs[k] for a 0-based k: the element, if there is a truthy one.
\* Indexing a string yields a character, which has none of the four fields.
SpecAt(value, k) ==
    IF value.kind = "array" /\ k >= 0 /\ k < Len(value.items)
    THEN << value.items[k + 1] >>
    ELSE IF value.kind = "string" /\ k >= 0 /\ k < Len(UpstreamString)
    THEN << [lighting |-> Undefined, environment |-> Undefined,
             cameraAngle |-> Undefined, materials |-> Undefined] >>
    ELSE << >>

\* the variationSection template of the dispatch loop: all four lines
variationSection(variant, spec) ==
    Section("VARIATION SPECIFICATIONS FOR VARIANT", << variant >>,
            << Line("Lighting", spec.lighting), Line("Environment", spec.environment),
               Line("Camera Angle", spec.cameraAngle), Line("Materials", spec.materials) >>)

\* StructuredVariantPrompt reading the spec at the variant's own index
StructuredVariantPromptSameIndex(base, specs, k) ==
    IF k = 0 THEN base
    ELSE IF Len(SpecAt(specs, k)) > 0
    THEN base \o << Separator, variationSection(k + 1, SpecAt(specs, k)[1]) >>
    ELSE base

\* variantPrompt of the structured endpoint for the 0-based index k
StructuredVariantPrompt(base, specs, k) ==
    IF k = 0 THEN base
    ELSE IF Len(SpecAt(specs, k - 1)) > 0
    THEN base \o << Separator, variationSection(k + 1, SpecAt(specs, k - 1)[1]) >>
    ELSE base

legacyLightingOptions == << "soft natural lighting", "dramatic studio lighting",
                            "golden hour glow", "cool blue tones", "warm ambient light" >>

legacyAngleOptions == << "eye-level front view", "slight overhead angle",
                         "low angle hero shot", "dynamic 3/4 view", "top-down flat lay" >>

legacyEnvOptions == << "minimal white background", "textured natural backdrop",
                       "lifestyle setting", "abstract gradient background",
                       "outdoor environment" >>

legacyMatOptions == << "matte surfaces", "glossy reflective surfaces",
                       "textured organic materials", "metallic accents",
                       "soft fabric textures" >>

variationHints(factors, k) ==
    (IF "lighting" \in factors
     THEN << Line("Lighting style", legacyLightingOptions[(k % 5) + 1]) >> ELSE << >>)
    \o (IF "camera-angle" \in factors
        THEN << Line("Camera angle", legacyAngleOptions[(k % 5) + 1]) >> ELSE << >>)
    \o (IF "environment" \in factors
        THEN << Line("Environment", legacyEnvOptions[(k % 5) + 1]) >> ELSE << >>)
    \o (IF "materials" \in factors
        THEN << Line("Material emphasis", legacyMatOptions[(k % 5) + 1]) >> ELSE << >>)

\* variantPrompt of the legacy endpoint for the 0-based index k
LegacyVariantPrompt(base, storylines, config, k) ==
    IF k < Len(storylines) /\ Truthy(storylines[k + 1])
    THEN base \o << Section("Creative Concept", << >>, << Line("", storylines[k + 1]) >>) >>
    ELSE IF variantCount(config) > 1 /\ HasVarianceFactors(config)
            /\ Len(variationHints(config.varianceFactors[1], k)) > 0
    THEN base \o << Section("Variant specific style", << k + 1 >>,
                            variationHints(config.varianceFactors[1], k)) >>
    ELSE base

\* progressBase counting the remaining share instead of the finished one
progressBaseRemaining(k, count) == 25 + (((count - k) * 60) \div count)

\* 25 + Math.floor((i / variantCount) * 60)
progressBase(k, count) == 25 + ((k * 60) \div count)

\* ---- the requests explored ---------------------------------------------
ImageTrendChoices ==
    { << "", "", "" >>, << "skip", "", "" >>,
      << "preset", "product-promotion-shot", "" >>, << "preset", "no-such-preset", "" >>,
      << "preset", "constructor", "" >>,
      << "preset", "", "" >>, << "ai", "", "sunset vibes" >>, << "ai", "", "" >> }

VideoTrendChoices ==
    { << "", "", "" >>, << "skip", "", "" >>,
      << "preset", "fast-product-showcase", "" >>, << "preset", "no-such-preset", "" >>,
      << "preset", "constructor", "" >>,
      << "preset", "", "" >>, << "ai", "", "quick cuts" >>, << "ai", "", "" >> }

VariantCountChoices == { << >> } \cup { << n >> : n \in (0 - 1)..MaxVariants }

FactorChoices == { << >>, << {} >>, << {"lighting"} >>, << {"lighting", "camera-angle"} >> }

ImagePartChoices ==
    { << >>, << "productImage_0", "productImage_1" >>,
      << "productImage_0", "lookAndFeel" >>, << "lookAndFeel", "productImage_0" >> }

AnchorKeys == << "anchorImage_0", "anchorImage_1", "anchorImage_2", "anchorImage_3",
                 "anchorImage_4", "anchorImage_5" >>

VideoPartChoices == { SubSeq(AnchorKeys, 1, k) : k \in 0..MaxAnchors }

PurposeChoices == { << >>, << "character", "custom", "environment" >> }

StructuredImageConfigs ==
    { [ DefaultConfig EXCEPT !.creativeTrendType = t[1], !.selectedPreset = t[2],
                             !.aiTrendDescription = t[3], !.variantCount = v,
                             !.varianceFactors = fs, !.useImageInteraction = u,
                             !.imageInteractionDescription = IF u THEN "blend both products" ELSE "" ]
      : t \in ImageTrendChoices, v \in VariantCountChoices, fs \in FactorChoices,
        u \in BOOLEAN }

StructuredVideoConfigs ==
    { [ DefaultConfig EXCEPT !.protocolType = "VIDEO", !.videoCreativeTrendType = t[1],
                             !.selectedVideoPreset = t[2], !.aiVideoTrendDescription = t[3],
                             !.videoLength = d, !.imagePurposes = ps,
                             !.customPurposeDescriptions =
                                 IF ps = << >> THEN << >> ELSE << "", "our mascot", "" >>,
                             !.creativeTrendType = IF it THEN "ai" ELSE "",
                             !.aiTrendDescription = IF it THEN "sunset vibes" ELSE "" ]
      : t \in VideoTrendChoices, d \in Durations \cup {""}, ps \in PurposeChoices,
        it \in BOOLEAN }

LegacyImageConfigs ==
    { [ DefaultConfig EXCEPT !.variantCount = v, !.varianceFactors = fs, !.useAIStoryline = a ]
      : v \in VariantCountChoices, fs \in FactorChoices, a \in BOOLEAN }

LegacyVideoConfigs ==
    { [ DefaultConfig EXCEPT !.protocolType = "VIDEO", !.videoLength = d, !.narrative = n ]
      : d \in Durations \cup {""}, n \in {"", "unboxing at dawn"} }

\* ---- requests made through the dashboard --------------------------------
\* the text the user writes into the Custom trend prompt field
CustomTrendText == "hand-written trend prompt"

\* The state of the image tab with the Custom option selected and a prompt
\* entered; productImages is the number of product images (the button needs one).
CustomImageTabStates ==
    [ productImages : {1, 2}, lookAndFeelImage : BOOLEAN, variantCount : {1, 2},
      varianceFactors : { {"lighting", "camera-angle"} },
      useImageInteraction : {FALSE}, imageInteractionDescription : {""},
      creativeTrendType : {"custom"}, selectedPreset : {"product-promotion-shot"},
      aiTrendDescription : {""}, customTrendPrompt : {CustomTrendText} ]

\* handleGenerate of ImageEngineTab: the object handed to onGenerate
ImageHandleGenerate(tab) ==
    [ productImages |-> tab.productImages, lookAndFeelImage |-> tab.lookAndFeelImage,
      variantCount |-> tab.variantCount, varianceFactors |-> tab.varianceFactors,
      useImageInteraction |-> tab.useImageInteraction,
      imageInteractionDescription |-> tab.imageInteractionDescription,
      creativeTrendType |-> tab.creativeTrendType, selectedPreset |-> tab.selectedPreset,
      aiTrendDescription |-> tab.aiTrendDescription ]

\* handleImageGenerate of DashboardTabs: the config part of the form
ImageRequestConfig(data) ==
    [ DefaultConfig EXCEPT !.protocolType = "IMAGE", !.trendType = "",
                           !.brandGuidelines = "", !.primaryColor = "#25F4EE",
                           !.secondaryColor = "#FE2C55", !.aspectRatio = "9:16",
                           !.variantCount = << data.variantCount >>,
                           !.varianceFactors = << data.varianceFactors >>,
                           !.useImageInteraction = data.useImageInteraction,
                           !.imageInteractionDescription = data.imageInteractionDescription,
                           !.creativeTrendType = data.creativeTrendType,
                           !.selectedPreset = data.selectedPreset,
                           !.aiTrendDescription = data.aiTrendDescription ]

\* handleImageGenerate of DashboardTabs: the file parts of the form
ImageRequestParts(data) ==
    SubSeq(<< "productImage_0", "productImage_1", "productImage_2" >>, 1, data.productImages)
    \o (IF data.lookAndFeelImage THEN << "lookAndFeel" >> ELSE << >>)

\* The state of the video tab with the Custom option selected and a prompt
\* entered; anchorImages is the number of reference images (the button needs one).
CustomVideoTabStates ==
    [ anchorImages : {1, 2}, videoLength : {"6s"}, narrative : {"", "unboxing at dawn"},
      creativeTrendType : {"custom"}, selectedVideoPreset : {"fast-product-showcase"},
      aiVideoTrendDescription : {""}, customVideoTrendPrompt : {CustomTrendText} ]

\* handleGenerate of VideoEngineTab: the object handed to onGenerate
VideoHandleGenerate(tab) ==
    [ anchorImages |-> tab.anchorImages,
      videoLength |-> IF tab.anchorImages > 0 THEN "8s" ELSE tab.videoLength,
      narrative |-> tab.narrative,
      creativeTrendType |-> tab.creativeTrendType,
      selectedVideoPreset |-> tab.selectedVideoPreset,
      aiVideoTrendDescription |-> tab.aiVideoTrendDescription ]

\* handleVideoGenerate of DashboardTabs: the config part of the form
VideoRequestConfig(data) ==
    [ DefaultConfig EXCEPT !.protocolType = "VIDEO",
                           !.trendType = Or(data.selectedVideoPreset, "fast-product-showcase"),
                           !.brandGuidelines = "", !.primaryColor = "#25F4EE",
                           !.secondaryColor = "#FE2C55", !.aspectRatio = "9:16",
                           !.narrative = data.narrative, !.narrativeTemplate = "custom",
                           !.videoLength = data.videoLength,
                           !.videoCreativeTrendType = data.creativeTrendType,
                           !.selectedVideoPreset = data.selectedVideoPreset,
                           !.aiVideoTrendDescription = data.aiVideoTrendDescription ]

\* handleVideoGenerate of DashboardTabs: the file parts of the form
VideoRequestParts(data) == SubSeq(AnchorKeys, 1, data.anchorImages)

DashboardRequests ==
    { << "structured", Form("ok", ImageRequestConfig(ImageHandleGenerate(tab)),
                            ImageRequestParts(ImageHandleGenerate(tab))) >>
      : tab \in CustomImageTabStates }
    \cup { << "structured", Form("ok", VideoRequestConfig(VideoHandleGenerate(tab)),
                                 VideoRequestParts(VideoHandleGenerate(tab))) >>
            : tab \in CustomVideoTabStates }

\* kind: "badform" (request.formData() rejects), "missing" (no config part),
\* "malformed" (JSON.parse throws), "null" (the JSON text is null), "ok".
BrokenKinds == {"badform", "missing", "malformed", "null"}

Requests ==
    { << e, Form(k, DefaultConfig, << >>) >> : e \in {"structured", "legacy"}, k \in BrokenKinds }
    \cup { << "structured", Form("ok", c, ps) >> : c \in StructuredImageConfigs, ps \in ImagePartChoices }
    \cup { << "structured", Form("ok", c, ps) >> : c \in StructuredVideoConfigs, ps \in VideoPartChoices }
    \cup { << "legacy", Form("ok", c, ps) >> : c \in LegacyImageConfigs,
                                              ps \in {<< >>, << "productImage_0" >>} }
    \cup { << "legacy", Form("ok", c, ps) >> : c \in LegacyVideoConfigs,
                                              ps \in {<< >>, << "anchorImage_0" >>} }
    \cup DashboardRequests

EmptySpecs == ArrayValue(<< >>)

DispatcherInit ==
    /\ \E r \in Requests : endpoint = r[1] /\ form = r[2]
    /\ apiKey \in BOOLEAN
    /\ pc = "start"
    /\ events = << >>
    /\ closed = FALSE
    /\ calls = << >>
    /\ aiGeneratedTrend = ""
    /\ aiGeneratedVideoTrend = ""
    /\ structuredPrompt = << >>
    /\ variationSpecs = EmptySpecs
    /\ aiStorylines = << >>
    /\ i = 0
    /\ results = << >>

\* the dispatcher when another component is explored on its own
DispatcherIdle ==
    /\ endpoint = "structured" /\ form = Form("missing", DefaultConfig, << >>)
    /\ apiKey = TRUE /\ pc = "idle" /\ events = << >> /\ closed = FALSE /\ calls = << >>
    /\ aiGeneratedTrend = "" /\ aiGeneratedVideoTrend = "" /\ structuredPrompt = << >>
    /\ variationSpecs = EmptySpecs /\ aiStorylines = << >> /\ i = 0 /\ results = << >>

VariationIdle == vsIn = << >> /\ vsOut = << >>

PromptIdle == spIn = << >> /\ spOut = << >> /\ vpIn = << >> /\ vpOut = << >>

ReaderIdle ==
    /\ sent = << >> /\ wire = << >> /\ decoderPending = << >> /\ buffer = << >>
    /\ parsedEvents = << >> /\ statusHistory = << >>
    /\ generationStatus = "idle" /\ readerPc = "idle"

NoOperation == [done |-> FALSE, hasVideo |-> FALSE]

VideoIdle ==
    /\ videoApiKey = TRUE /\ videoPc = "idle" /\ operation = NoOperation
    /\ anchorImages = << >> /\ providerImages = << >>
    /\ elapsed = 0 /\ polls = 0 /\ tempFile = "none" /\ videoOutcome = << >>

FallbackIdle ==
    fbIn = << >> /\ fbOut = << >>

AuthIdle ==
    /\ isLoading = TRUE /\ isAuthenticated = FALSE /\ username = << >>
    /\ authStorage = << >> /\ authLog = << >> /\ mounted = FALSE

TabIdle ==
    /\ files = << >> /\ tabAnchorImages = << >> /\ imagePurposes = << >>
    /\ customPurposeDescriptions = << >> /\ tabVideoLength = "6s" /\ uploads = 0
    /\ assigned = [ file \in {} |-> "" ]

\* ---- the start() callback, one action per stretch between two awaits ----

\* the outer catch block: one error event, then close
OuterCatch(emitted, message) ==
    /\ events' = emitted \o << ErrorEvent(message) >>
    /\ closed' = TRUE
    /\ pc' = "done"

\* MissingConfig with the initial status event sent before the check
MissingConfigAfterStatus(emitted) ==
    /\ events' = emitted \o << StatusEvent(5), ErrorEvent("No configuration provided") >>
    /\ closed' = TRUE
    /\ pc' = "done"

\* Lines 159-163 / 536-540: if (!configStr) { enqueue error; close; return }
MissingConfig(emitted) ==
    /\ events' = emitted \o << ErrorEvent("No configuration provided") >>
    /\ closed' = TRUE
    /\ pc' = "done"

\* Lines 154-203 (structured) / 531-565 (legacy): parse the form, first two
\* status events, and for the structured endpoint the start of the image
\* trend expansion.
ParseRequest ==
    /\ pc = "start"
    /\ IF form.kind = "badform"
       THEN OuterCatch(events, "Failed to parse body as FormData") /\ UNCHANGED calls
       ELSE IF form.kind = "missing"
       THEN MissingConfig(events) /\ UNCHANGED calls
       ELSE IF form.kind = "malformed"
       THEN OuterCatch(events, "Unexpected token in JSON") /\ UNCHANGED calls
       ELSE IF form.kind = "null"
       THEN OuterCatch(events \o << StatusEvent(5), StatusEvent(10) >>,
                       "Cannot read properties of null") /\ UNCHANGED calls
       ELSE IF endpoint = "structured" /\ form.config.creativeTrendType = "ai"
               /\ Truthy(form.config.aiTrendDescription)
       THEN /\ events' = events \o << StatusEvent(5), StatusEvent(10), StatusEvent(12) >>
            /\ calls' = Append(calls, Call("generateCreativeTrendFromDescription", << >>, << >>, ""))
            /\ pc' = "awaitTrend"
            /\ UNCHANGED closed
       ELSE /\ events' = events \o << StatusEvent(5), StatusEvent(10) >>
            /\ pc' = "buildPrompt"
            /\ UNCHANGED << closed, calls >>
    /\ UNCHANGED << endpoint, apiKey, form, aiGeneratedTrend, aiGeneratedVideoTrend,
                    structuredPrompt, variationSpecs, aiStorylines, i, results >>
    /\ UNCHANGED nonDispatcherVars

\* Line 202: generateCreativeTrendFromDescription settles.
TrendReturns ==
    /\ pc = "awaitTrend"
    /\ \E upstream \in TrendOutcomes :
         LET r == generateCreativeTrendFromDescription(apiKey, upstream)
         IN IF r.threw
            THEN OuterCatch(events, r.msg) /\ UNCHANGED aiGeneratedTrend
            ELSE /\ aiGeneratedTrend' = r.value
                 /\ pc' = "buildPrompt"
                 /\ UNCHANGED << events, closed >>
    /\ UNCHANGED << endpoint, apiKey, form, calls, aiGeneratedVideoTrend,
                    structuredPrompt, variationSpecs, aiStorylines, i, results >>
    /\ UNCHANGED nonDispatcherVars

\* Lines 205-267 and 349-360: build the base prompt, then enter the image
\* branch (up to the variation-spec call) or the video branch (up to the
\* video trend expansion).
BuildPrompt ==
    /\ pc = "buildPrompt"
    /\ endpoint = "structured"
    /\ structuredPrompt' = buildStructuredPrompt(structuredPromptParams(form, aiGeneratedTrend))
    /\ IF form.config.protocolType = "IMAGE"
       THEN IF variantCount(form.config) > 1 /\ HasVarianceFactors(form.config)
            THEN /\ events' = events \o << StatusEvent(15), StatusEvent(20), StatusEvent(22) >>
                 /\ calls' = Append(calls, Call("generateVariationSpecs", << >>, << >>, ""))
                 /\ pc' = "awaitSpecs"
            ELSE /\ events' = events \o << StatusEvent(15), StatusEvent(20) >>
                 /\ pc' = "loop"
                 /\ UNCHANGED calls
       ELSE IF form.config.videoCreativeTrendType = "ai"
               /\ Truthy(form.config.aiVideoTrendDescription)
            THEN /\ events' = events \o << StatusEvent(15), StatusEvent(20), StatusEvent(25) >>
                 /\ calls' = Append(calls, Call("generateVideoCreativeTrendFromDescription",
                                                << >>, << >>, ""))
                 /\ pc' = "awaitVideoTrend"
            ELSE /\ events' = events \o << StatusEvent(15), StatusEvent(20) >>
                 /\ pc' = "videoBuild"
                 /\ UNCHANGED calls
    /\ UNCHANGED << endpoint, apiKey, form, closed, aiGeneratedTrend, aiGeneratedVideoTrend,
                    variationSpecs, aiStorylines, i, results >>
    /\ UNCHANGED nonDispatcherVars

\* InnerCatch with a catch block that only logs
InnerCatchSilent(emitted, message) ==
    /\ events' = emitted
    /\ pc' = "finalize"

\* the catch block of the image branch / of the video branch
InnerCatch(emitted, message) ==
    /\ events' = emitted \o << ErrorEvent(message) >>
    /\ pc' = "finalize"

\* The provider answers explored by the dispatcher for the variation specs.
DispatchSpecResponses(count) ==
    { [outcome |-> "throw", text |-> EmptyArrayText],
      [outcome |-> "notext", text |-> EmptyArrayText],
      [outcome |-> "text", text |-> [prefix |-> "", suffix |-> "",
                                     body |-> [kind |-> "invalid", n |-> 0, shape |-> "full"]]],
      [outcome |-> "text", text |-> [prefix |-> "", suffix |-> "",
                                     body |-> [kind |-> "object", n |-> 0, shape |-> "full"]]],
      [outcome |-> "text", text |-> [prefix |-> "", suffix |-> "",
                                     body |-> [kind |-> "string", n |-> 0, shape |-> "full"]]],
      [outcome |-> "text", text |-> [prefix |-> FenceJson, suffix |-> FenceBare,
                                     body |-> [kind |-> "array", n |-> count - 1, shape |-> "full"]]],
      [outcome |-> "text", text |-> [prefix |-> "", suffix |-> "",
                                     body |-> [kind |-> "array", n |-> count - 1, shape |-> "requested"]]],
      [outcome |-> "text", text |-> [prefix |-> "", suffix |-> "",
                                     body |-> [kind |-> "array", n |-> count - 2, shape |-> "full"]]] }

\* Line 260: generateVariationSpecs settles.
SpecsReturn ==
    /\ pc = "awaitSpecs"
    /\ \E upstream \in DispatchSpecResponses(variantCount(form.config)) :
         LET r == generateVariationSpecs(apiKey, form.config.varianceFactors[1],
                                         variantCount(form.config), upstream)
         IN IF r.threw
            THEN InnerCatch(events, r.msg) /\ UNCHANGED variationSpecs
            ELSE /\ variationSpecs' = r.value
                 /\ pc' = "loop"
                 /\ UNCHANGED events
    /\ UNCHANGED << endpoint, apiKey, form, closed, calls, aiGeneratedTrend,
                    aiGeneratedVideoTrend, structuredPrompt, aiStorylines, i, results >>
    /\ UNCHANGED nonDispatcherVars

\* LoopIterate that starts the calls of all remaining variants at once
LoopIterateAllAtOnce ==
    /\ pc = "loop"
    /\ i < variantCount(form.config)
    /\ events' = Append(events, StatusEvent(progressBase(i, variantCount(form.config))))
    /\ calls' = calls \o [ k \in 1..(variantCount(form.config) - i) |->
                             Call("generateImage", structuredPrompt, uploadedImages(form), "") ]
    /\ pc' = "awaitImage"
    /\ UNCHANGED << endpoint, apiKey, form, closed, aiGeneratedTrend, aiGeneratedVideoTrend,
                    structuredPrompt, variationSpecs, aiStorylines, i, results >>
    /\ UNCHANGED nonDispatcherVars

\* Lines 269-303 / 600-642: one pass of the loop up to the generateImage call.
LoopIterate ==
    /\ pc = "loop"
    /\ i < variantCount(form.config)
    /\ events' = Append(events, StatusEvent(progressBase(i, variantCount(form.config))))
    /\ calls' = Append(calls,
                       Call("generateImage",
                            IF endpoint = "structured"
                            THEN StructuredVariantPrompt(structuredPrompt, variationSpecs, i)
                            ELSE LegacyVariantPrompt(structuredPrompt, aiStorylines, form.config, i),
                            uploadedImages(form), ""))
    /\ pc' = "awaitImage"
    /\ UNCHANGED << endpoint, apiKey, form, closed, aiGeneratedTrend, aiGeneratedVideoTrend,
                    structuredPrompt, variationSpecs, aiStorylines, i, results >>
    /\ UNCHANGED nonDispatcherVars

\* ImageReturns with a catch inside the loop body: a failed variant is
\* reported and the loop goes on
ImageReturnsContinue ==
    /\ pc = "awaitImage"
    /\ \E upstream \in ImageOutcomes :
         LET r == generateImage(apiKey, upstream)
         IN IF r.threw
            THEN /\ events' = Append(events, ErrorEvent(r.msg))
                 /\ i' = i + 1
                 /\ pc' = "loop"
                 /\ UNCHANGED results
            ELSE /\ results' = Append(results, i + 1)
                 /\ i' = i + 1
                 /\ pc' = "loop"
                 /\ UNCHANGED events
    /\ UNCHANGED << endpoint, apiKey, form, closed, calls, aiGeneratedTrend,
                    aiGeneratedVideoTrend, structuredPrompt, variationSpecs, aiStorylines >>
    /\ UNCHANGED nonDispatcherVars

\* Lines 298-310 / 637-649: generateImage settles.
ImageReturns ==
    /\ pc = "awaitImage"
    /\ \E upstream \in ImageOutcomes :
         LET r == generateImage(apiKey, upstream)
         IN IF r.threw
            THEN InnerCatch(events, r.msg) /\ UNCHANGED << i, results >>
            ELSE /\ results' = Append(results, i + 1)
                 /\ i' = i + 1
                 /\ pc' = "loop"
                 /\ UNCHANGED events
    /\ UNCHANGED << endpoint, apiKey, form, closed, calls, aiGeneratedTrend,
                    aiGeneratedVideoTrend, structuredPrompt, variationSpecs, aiStorylines >>
    /\ UNCHANGED nonDispatcherVars

\* LoopExit that always sends the payloads as a list
LoopExitAlwaysList ==
    /\ pc = "loop"
    /\ ~ (i < variantCount(form.config))
    /\ IF Len(results) = 0
       THEN InnerCatch(events \o << StatusEvent(90), StatusEvent(95) >>,
                       "Cannot read properties of undefined")
       ELSE /\ events' = events \o << StatusEvent(90), StatusEvent(95),
                                      ResultEvent(results, FALSE, Len(results), "") >>
            /\ pc' = "finalize"
    /\ UNCHANGED << endpoint, apiKey, form, closed, calls, aiGeneratedTrend,
                    aiGeneratedVideoTrend, structuredPrompt, variationSpecs, aiStorylines,
                    i, results >>
    /\ UNCHANGED nonDispatcherVars

\* Lines 312-338 / 651-677: after the loop.  Building the payload reads
\* results[0].filePath, a TypeError when the loop never ran.
LoopExit ==
    /\ pc = "loop"
    /\ ~ (i < variantCount(form.config))
    /\ IF Len(results) = 0
       THEN InnerCatch(events \o << StatusEvent(90), StatusEvent(95) >>,
                       "Cannot read properties of undefined")
       ELSE /\ events' = events \o << StatusEvent(90), StatusEvent(95),
                                      ResultEvent(results, Len(results) = 1, Len(results), "") >>
            /\ pc' = "finalize"
    /\ UNCHANGED << endpoint, apiKey, form, closed, calls, aiGeneratedTrend,
                    aiGeneratedVideoTrend, structuredPrompt, variationSpecs, aiStorylines,
                    i, results >>
    /\ UNCHANGED nonDispatcherVars

\* Line 359: generateVideoCreativeTrendFromDescription settles.
VideoTrendReturns ==
    /\ pc = "awaitVideoTrend"
    /\ \E upstream \in TrendOutcomes :
         LET r == generateVideoCreativeTrendFromDescription(apiKey, upstream)
         IN IF r.threw
            THEN OuterCatch(events, r.msg) /\ UNCHANGED aiGeneratedVideoTrend
            ELSE /\ aiGeneratedVideoTrend' = r.value
                 /\ pc' = "videoBuild"
                 /\ UNCHANGED << events, closed >>
    /\ UNCHANGED << endpoint, apiKey, form, calls, aiGeneratedTrend,
                    structuredPrompt, variationSpecs, aiStorylines, i, results >>
    /\ UNCHANGED nonDispatcherVars

\* Lines 362-407: build the video prompt and start generateVideo.
VideoBuild ==
    /\ pc = "videoBuild"
    /\ events' = events \o << StatusEvent(30), StatusEvent(40) >>
    /\ calls' = Append(calls,
                       Call("generateVideo",
                            buildVideoStructuredPrompt(videoPromptParams(form, aiGeneratedVideoTrend)),
                            anchorImageBuffers(form), effectiveDuration(form)))
    /\ pc' = "awaitVideo"
    /\ UNCHANGED << endpoint, apiKey, form, closed, aiGeneratedTrend, aiGeneratedVideoTrend,
                    structuredPrompt, variationSpecs, aiStorylines, i, results >>
    /\ UNCHANGED nonDispatcherVars

\* Lines 402-432 / 699-728: generateVideo settles.
VideoReturns ==
    /\ pc = "awaitVideo"
    /\ \E upstream \in VideoOutcomes :
         LET r == generateVideo(apiKey, upstream)
         IN IF r.threw
            THEN InnerCatch(events, r.msg)
            ELSE /\ events' = events \o
                       << StatusEvent(90), StatusEvent(95),
                          ResultEvent(<< 1 >>, TRUE, 1,
                                      IF endpoint = "structured" THEN effectiveDuration(form)
                                      ELSE Or(form.config.videoLength, "6s")) >>
                 /\ pc' = "finalize"
    /\ UNCHANGED << endpoint, apiKey, form, closed, calls, aiGeneratedTrend,
                    aiGeneratedVideoTrend, structuredPrompt, variationSpecs, aiStorylines,
                    i, results >>
    /\ UNCHANGED nonDispatcherVars

\* Finalize without the final status event
FinalizeWithoutStatus ==
    /\ pc = "finalize"
    /\ closed' = TRUE
    /\ pc' = "done"
    /\ UNCHANGED << endpoint, apiKey, form, events, calls, aiGeneratedTrend,
                    aiGeneratedVideoTrend, structuredPrompt, variationSpecs, aiStorylines,
                    i, results >>
    /\ UNCHANGED nonDispatcherVars

\* Lines 435-436 / 731-732: the final status event and the close.
Finalize ==
    /\ pc = "finalize"
    /\ events' = Append(events, StatusEvent(100))
    /\ closed' = TRUE
    /\ pc' = "done"
    /\ UNCHANGED << endpoint, apiKey, form, calls, aiGeneratedTrend, aiGeneratedVideoTrend,
                    structuredPrompt, variationSpecs, aiStorylines, i, results >>
    /\ UNCHANGED nonDispatcherVars

\* ---- legacy endpoint ---------------------------------------------------
StorylineResponses(count) ==
    { [outcome |-> "throw", n |-> 0], [outcome |-> "unusable", n |-> 0],
      [outcome |-> "array", n |-> count], [outcome |-> "array", n |-> count - 1] }

\* Lines 567-598 and 686-704: build the trend prompt, then enter the image
\* branch (up to the storyline call) or start generateVideo.
LegacyBuildPrompt ==
    /\ pc = "buildPrompt"
    /\ endpoint = "legacy"
    /\ LET trendPrompt ==
               buildTrendPrompt(buildBasePrompt(form.config, Len(uploadedImages(form))),
                                Or(form.config.trendType, "standard-promo"),
                                IF form.config.protocolType = "IMAGE" THEN "image" ELSE "video")
       IN /\ structuredPrompt' = trendPrompt
          /\ IF form.config.protocolType = "IMAGE"
             THEN IF form.config.useAIStoryline /\ variantCount(form.config) > 0
                  THEN /\ events' = events \o << StatusEvent(15), StatusEvent(20), StatusEvent(22) >>
                       /\ calls' = Append(calls, Call("generateAIStorylines", << >>, << >>, ""))
                       /\ pc' = "awaitStorylines"
                  ELSE /\ events' = events \o << StatusEvent(15), StatusEvent(20) >>
                       /\ pc' = "loop"
                       /\ UNCHANGED calls
             ELSE /\ events' = events \o << StatusEvent(15), StatusEvent(20),
                                            StatusEvent(30), StatusEvent(40) >>
                  /\ calls' = Append(calls,
                                     Call("generateVideo",
                                          IF Truthy(form.config.narrative)
                                          THEN trendPrompt \o
                                               << Section("Narrative", << >>,
                                                          << Line("", form.config.narrative) >>) >>
                                          ELSE trendPrompt,
                                          anchorImageBuffers(form),
                                          Or(form.config.videoLength, "6s")))
                  /\ pc' = "awaitVideo"
    /\ UNCHANGED << endpoint, apiKey, form, closed, aiGeneratedTrend, aiGeneratedVideoTrend,
                    variationSpecs, aiStorylines, i, results >>
    /\ UNCHANGED nonDispatcherVars

\* Line 589: generateAIStorylines settles.
StorylinesReturn ==
    /\ pc = "awaitStorylines"
    /\ \E upstream \in StorylineResponses(variantCount(form.config)) :
         LET r == generateAIStorylines(apiKey, variantCount(form.config), upstream)
         IN IF r.threw
            THEN InnerCatch(events, r.msg) /\ UNCHANGED aiStorylines
            ELSE /\ aiStorylines' = r.value
                 /\ pc' = "loop"
                 /\ UNCHANGED events
    /\ UNCHANGED << endpoint, apiKey, form, closed, calls, aiGeneratedTrend,
                    aiGeneratedVideoTrend, structuredPrompt, variationSpecs, i, results >>
    /\ UNCHANGED nonDispatcherVars

Init == DispatcherInit /\ VariationIdle /\ PromptIdle /\ ReaderIdle /\ VideoIdle /\ FallbackIdle /\ AuthIdle /\ TabIdle

Next ==
    \/ ParseRequest
    \/ TrendReturns
    \/ BuildPrompt
    \/ SpecsReturn
    \/ LoopIterate
    \/ ImageReturns
    \/ LoopExit
    \/ VideoTrendReturns
    \/ VideoBuild
    \/ VideoReturns
    \/ Finalize
    \/ LegacyBuildPrompt
    \/ StorylinesReturn

Spec == Init /\ [][Next]_vars

\* =========================================================================
\* generateVariationSpecs on its own
\* =========================================================================
FactorSets == { {}, {"lighting"}, {"lighting", "camera-angle"}, Factors }

ResponseBodies ==
    { [kind |-> k, n |-> 0, shape |-> "full"] : k \in {"invalid", "object", "string", "null"} }
    \cup { [kind |-> "array", n |-> n, shape |-> sh]
           : n \in 0..(MaxVariants + MaxExtraSpecs), sh \in {"full", "requested"} }

ResponseTexts ==
    { [prefix |-> pre, body |-> b, suffix |-> suf]
      : pre \in {"", FenceJson, FenceBare}, b \in ResponseBodies, suf \in {"", FenceBare} }

SpecResponses ==
    { [outcome |-> "throw", text |-> EmptyArrayText],
      [outcome |-> "notext", text |-> EmptyArrayText] }
    \cup { [outcome |-> "text", text |-> t] : t \in ResponseTexts }

VariationInit ==
    /\ vsIn \in [ apiKey : BOOLEAN, factors : FactorSets,
                  variantCount : 0..MaxVariants, upstream : SpecResponses ]
    /\ vsOut = << >>

\* one call of generateVariationSpecs with the arguments of vsIn
CallGenerateVariationSpecs ==
    /\ vsOut = << >>
    /\ vsOut' = << generateVariationSpecs(vsIn.apiKey, vsIn.factors,
                                           vsIn.variantCount, vsIn.upstream) >>
    /\ UNCHANGED vsIn
    /\ UNCHANGED nonVariationVars

NextVariation == CallGenerateVariationSpecs

InitVariation == VariationInit /\ DispatcherIdle /\ PromptIdle /\ ReaderIdle /\ VideoIdle /\ FallbackIdle /\ AuthIdle /\ TabIdle

SpecVariation == InitVariation /\ [][NextVariation]_vars

\* =========================================================================
\* The prompt builders on their own
\* =========================================================================
MaxReferenceImages == 3
MaxMoodboardImages == 2
MaxVariantNumber == 3

\* the creativeTrend parameter, against the given catalog
TrendParams(catalog) ==
    { [type |-> "skip", presetId |-> "", customPrompt |-> ""],
      [type |-> "preset", presetId |-> "", customPrompt |-> ""],
      [type |-> "preset", presetId |-> "no-such-preset", customPrompt |-> ""],
      [type |-> "preset", presetId |-> "constructor", customPrompt |-> ""],
      [type |-> "preset", presetId |-> "__proto__", customPrompt |-> ""],
      [type |-> "ai-generated", presetId |-> "", customPrompt |-> ""],
      [type |-> "ai-generated", presetId |-> "", customPrompt |-> "neon night market"] }
    \cup { [type |-> "preset", presetId |-> id, customPrompt |-> ""] : id \in DOMAIN catalog }

VariationSpecParams ==
    { << >>,
      << [lighting |-> "", environment |-> "", cameraAngle |-> "", materials |-> ""] >>,
      << [lighting |-> "soft", environment |-> "", cameraAngle |-> "low", materials |-> ""] >> }

StructuredPromptInputs ==
    [ referenceImageInteraction : {"", "blend both products"},
      referenceImageCount : 0..MaxReferenceImages,
      creativeTrend : TrendParams(CREATIVE_TREND_PRESETS),
      brandGuidelines : {"", "bold and playful"},
      primaryColor : {"#25F4EE"},
      secondaryColor : {"#FE2C55"},
      moodboardImageCount : 0..MaxMoodboardImages,
      moodboardStartIndex : {0, 2},
      aspectRatio : {"9:16", "3:2"},
      variantNumber : 0..MaxVariantNumber,
      variationSpecs : VariationSpecParams ]

ReferenceImageParams ==
    { << >>,
      << [index |-> 1, purpose |-> "product", customDescription |-> ""] >>,
      << [index |-> 1, purpose |-> "character", customDescription |-> ""],
         [index |-> 2, purpose |-> "custom", customDescription |-> "our mascot"] >> }

VideoPromptInputs ==
    [ referenceImages : ReferenceImageParams,
      creativeTrend : TrendParams(VIDEO_CREATIVE_TREND_PRESETS),
      brandGuidelines : {"", "bold and playful"},
      primaryColor : {"#25F4EE"},
      secondaryColor : {"#FE2C55"},
      narrative : {"Create an engaging video loop."},
      narrativeTemplate : {""},
      aspectRatio : {"9:16"},
      duration : Durations ]

\* one call of either builder is explored at a time
PromptInit ==
    /\ \/ (\E params \in StructuredPromptInputs : spIn = << params >>) /\ vpIn = << >>
       \/ (\E params \in VideoPromptInputs : vpIn = << params >>) /\ spIn = << >>
    /\ spOut = << >>
    /\ vpOut = << >>

\* one call of buildStructuredPrompt with the parameters of spIn
CallBuildStructuredPrompt ==
    /\ Len(spIn) = 1 /\ spOut = << >>
    /\ spOut' = << buildStructuredPrompt(spIn[1]) >>
    /\ UNCHANGED << spIn, vpIn, vpOut >>
    /\ UNCHANGED nonPromptVars

\* one call of buildVideoStructuredPrompt with the parameters of vpIn
CallBuildVideoStructuredPrompt ==
    /\ Len(vpIn) = 1 /\ vpOut = << >>
    /\ vpOut' = << buildVideoStructuredPrompt(vpIn[1]) >>
    /\ UNCHANGED << spIn, spOut, vpIn >>
    /\ UNCHANGED nonPromptVars

NextPrompt ==
    \/ CallBuildStructuredPrompt
    \/ CallBuildVideoStructuredPrompt

InitPrompt == PromptInit /\ DispatcherIdle /\ VariationIdle /\ ReaderIdle /\ VideoIdle /\ FallbackIdle /\ AuthIdle /\ TabIdle

SpecPrompt == InitPrompt /\ [][NextPrompt]_vars

\* =========================================================================
\* The dashboard's stream reader  (src/src/components/dashboard/DashboardTabs.tsx)
\* =========================================================================
\* Bytes and characters are numbers.  0 is the newline; 1 and 2 are the two
\* halves of the text "data: "; the JSON text of the event at position k of
\* sent is the character 10k+1 followed by the character 10k+2, and that
\* second character takes two bytes in UTF-8, 10k+2 and 10k+3.
MaxEvents == 3

NewLine == 0

DataPrefix == << 1, 2 >>

\* JSON.stringify of the event at position k, as characters
JsonText(k) == << (10 * k) + 1, (10 * k) + 2 >>

\* encoder.encode of a text: one byte per character, two for a wide one
Utf8(char) == IF char >= 10 /\ char % 10 = 2 THEN << char, char + 1 >> ELSE << char >>

RECURSIVE Encode(_)
\* TextEncoder.encode
Encode(text) == IF Len(text) = 0 THEN << >> ELSE Utf8(Head(text)) \o Encode(Tail(text))

\* what sendStatus and the result / error enqueues put on the stream for the
\* event at position k: encoder.encode("data: " + JSON + "\n\n")
EncodeEvent(k) == Encode(DataPrefix \o JsonText(k) \o << NewLine, NewLine >>)

RECURSIVE EncodeEvents(_, _)
\* the body of the response: the enqueued chunks in order, from position k on
EncodeEvents(k, n) == IF k > n THEN << >> ELSE EncodeEvent(k) \o EncodeEvents(k + 1, n)

RECURSIVE Decode(_)
\* decoder.decode(value, {stream: true}) applied to the held-back bytes
\* followed by the new ones: complete characters are returned, the lead byte
\* of an incomplete wide character is held back.
Decode(bytes) ==
    IF Len(bytes) = 0 THEN [chars |-> << >>, pending |-> << >>]
    ELSE IF Head(bytes) >= 10 /\ Head(bytes) % 10 = 2
    THEN IF Len(bytes) = 1 THEN [chars |-> << >>, pending |-> bytes]
         ELSE LET rest == Decode(Tail(Tail(bytes)))
              IN [chars |-> << Head(bytes) >> \o rest.chars, pending |-> rest.pending]
    ELSE LET rest == Decode(Tail(bytes))
         IN [chars |-> << Head(bytes) >> \o rest.chars, pending |-> rest.pending]

\* the first position at or after from where text holds the separator
\* (width 1: a newline, width 2: two newlines), 0 if there is none
IndexOf(text, width, from) ==
    LET hits == { k \in from..(Len(text) - width + 1) :
                    \A j \in 0..(width - 1) : text[k + j] = NewLine }
    IN IF hits = {} THEN 0 ELSE CHOOSE k \in hits : \A h \in hits : k <= h

RECURSIVE Split(_, _)
\* text.split("\n") (width 1) and text.split("\n\n") (width 2)
Split(text, width) ==
    IF IndexOf(text, width, 1) = 0 THEN << text >>
    ELSE << SubSeq(text, 1, IndexOf(text, width, 1) - 1) >>
         \o Split(SubSeq(text, IndexOf(text, width, 1) + width, Len(text)), width)

\* the reader without a buffer: what follows the last separator is dropped
KeepNothing(messages) == << >>

\* buffer = messages.pop() || ""
KeepIncomplete(messages) == messages[Len(messages)]

\* line.startsWith("data: ")
IsDataLine(line) == Len(line) >= 2 /\ SubSeq(line, 1, 2) = DataPrefix

\* JSON.parse(line.replace("data: ", "")): the position of the event whose
\* JSON text it is; anything else throws and is caught and logged
ParseLine(line) ==
    LET jsonStr == SubSeq(line, 3, Len(line))
        matches == { k \in 1..MaxEvents : jsonStr = JsonText(k) }
    IN IF matches = {} THEN << >> ELSE << CHOOSE k \in matches : TRUE >>

RECURSIVE ParseLines(_)
ParseLines(lines) ==
    IF Len(lines) = 0 THEN << >>
    ELSE (IF IsDataLine(Head(lines)) THEN ParseLine(Head(lines)) ELSE << >>)
         \o ParseLines(Tail(lines))

RECURSIVE ParseMessages(_)
\* the two nested for loops over the complete messages of one chunk
ParseMessages(messages) ==
    IF Len(messages) = 0 THEN << >>
    ELSE ParseLines(Split(Head(messages), 1)) \o ParseMessages(Tail(messages))

EventTypes == {"status", "result", "error"}

RECURSIVE ApplyEvents(_, _, _)
\* the three if statements of the loop body, for the parsed events in order
ApplyEvents(ids, history, status) ==
    IF Len(ids) = 0 THEN [history |-> history, status |-> status]
    ELSE LET type == sent[Head(ids)]
         IN ApplyEvents(Tail(ids),
                        IF type = "status" THEN Append(history, Head(ids)) ELSE history,
                        CASE type = "status" -> "generating"
                          [] type = "result" -> "complete"
                          [] type = "error" -> "error"
                          [] OTHER -> status)

ReaderInit ==
    /\ \E n \in 1..MaxEvents : sent \in [1..n -> EventTypes]
    /\ wire = EncodeEvents(1, Len(sent))
    /\ decoderPending = << >>
    /\ buffer = << >>
    /\ parsedEvents = << >>
    /\ statusHistory = << >>
    /\ generationStatus = "generating"
    /\ readerPc = "reading"

\* One pass of the while loop whose reader.read() yields a chunk: the next
\* bytes of the body, cut wherever the transport cut them.
ReadChunk ==
    /\ readerPc = "reading"
    /\ Len(wire) > 0
    /\ \E n \in 1..Len(wire) :
         LET decoded == Decode(decoderPending \o SubSeq(wire, 1, n))
             messages == Split(buffer \o decoded.chars, 2)
             ids == ParseMessages(SubSeq(messages, 1, Len(messages) - 1))
             applied == ApplyEvents(ids, statusHistory, generationStatus)
         IN /\ wire' = SubSeq(wire, n + 1, Len(wire))
            /\ decoderPending' = decoded.pending
            /\ buffer' = KeepIncomplete(messages)
            /\ parsedEvents' = parsedEvents \o ids
            /\ statusHistory' = applied.history
            /\ generationStatus' = applied.status
    /\ UNCHANGED << sent, readerPc >>
    /\ UNCHANGED nonReaderVars

\* The pass of the while loop whose reader.read() reports done.
ReadDone ==
    /\ readerPc = "reading"
    /\ Len(wire) = 0
    /\ readerPc' = "done"
    /\ UNCHANGED << sent, wire, decoderPending, buffer, parsedEvents, statusHistory,
                    generationStatus >>
    /\ UNCHANGED nonReaderVars

NextReader ==
    \/ ReadChunk
    \/ ReadDone

InitReader == ReaderInit /\ DispatcherIdle /\ VariationIdle /\ PromptIdle /\ VideoIdle /\ FallbackIdle /\ AuthIdle /\ TabIdle

SpecReader == InitReader /\ [][NextReader]_vars

\* =========================================================================
\* generateVideo step by step  (src/unnamed/part_004)
\* =========================================================================
maxWaitTime == 300000

pollInterval == 10000

TimeoutMessage == "Video generation timed out after 5 minutes"

NoVideoMessage == "No video in response"

\* what the provider's operation object can look like
Operations == { [done |-> FALSE, hasVideo |-> FALSE], [done |-> TRUE, hasVideo |-> FALSE],
                [done |-> TRUE, hasVideo |-> TRUE] }

VideoInit ==
    /\ videoApiKey \in BOOLEAN
    /\ videoPc = "start"
    /\ \E k \in 0..MaxAnchors : anchorImages = SubSeq(AnchorKeys, 1, k)
    /\ providerImages = << >>
    /\ operation = NoOperation
    /\ elapsed = 0
    /\ polls = 0
    /\ tempFile = "none"
    /\ videoOutcome = << >>

\* the catch block of generateVideo: every error leaves as a new Error
VideoThrows(message) ==
    /\ videoOutcome' = << [threw |-> TRUE, msg |-> message] >>
    /\ videoPc' = "threw"

\* the loop condition with the ceiling included in the waiting range
ShouldPollInclusive(op, waited) == ~ op.done /\ waited <= maxWaitTime

\* while (!operation.done && elapsed < maxWaitTime)
ShouldPoll(op, waited) == ~ op.done /\ waited < maxWaitTime

\* From the loop condition on, with the operation object just received:
\* either the next sleep starts, or the loop is left and the code runs up to
\* the download call.  dirOk: ensureOutputDir does not throw.
AfterOperation(op, dirOk) ==
    IF ShouldPoll(op, elapsed)
    THEN videoPc' = "sleeping" /\ UNCHANGED videoOutcome
    ELSE IF ~ op.done THEN VideoThrows(TimeoutMessage)
    ELSE IF ~ op.hasVideo THEN VideoThrows(NoVideoMessage)
    ELSE IF ~ dirOk THEN VideoThrows("mkdir failed")
    ELSE videoPc' = "awaitDownload" /\ UNCHANGED videoOutcome

\* anchorImages.slice(0, 3).map(...): the referenceImages of generateVideo
SliceThree(images) == SubSeq(images, 1, IF Len(images) > 3 THEN 3 ELSE Len(images))

\* a generateVideos request that is handed every anchor image
GenerateVideosImagesAll(images) == images

\* The images of the generateVideos request: image: referenceImages[0] with
\* anchor images, no image field without.
GenerateVideosImages(images) ==
    IF Len(images) > 0 THEN << SliceThree(images)[1] >> ELSE << >>

\* Lines 696-736: getClient() outside the try block, then the generateVideos call.
StartVideo ==
    /\ videoPc = "start"
    /\ IF GetClient(videoApiKey).threw
       THEN VideoThrows(GetClient(videoApiKey).msg) /\ UNCHANGED providerImages
       ELSE /\ providerImages' = GenerateVideosImages(anchorImages)
            /\ videoPc' = "awaitOperation"
            /\ UNCHANGED videoOutcome
    /\ UNCHANGED << videoApiKey, anchorImages, operation, elapsed, polls, tempFile >>
    /\ UNCHANGED nonVideoVars

\* Lines 719-745: generateVideos settles.
OperationStarted ==
    /\ videoPc = "awaitOperation"
    /\ \/ VideoThrows("provider error") /\ UNCHANGED operation
       \/ \E op \in Operations, dirOk \in BOOLEAN :
            operation' = op /\ AfterOperation(op, dirOk)
    /\ UNCHANGED << videoApiKey, anchorImages, providerImages, elapsed, polls, tempFile >>
    /\ UNCHANGED nonVideoVars

\* Lines 747-752: the timer fires, elapsed grows, the operation is polled.
TimerFires ==
    /\ videoPc = "sleeping"
    /\ elapsed' = elapsed + pollInterval
    /\ polls' = polls + 1
    /\ videoPc' = "awaitPoll"
    /\ UNCHANGED << videoApiKey, anchorImages, providerImages, operation, tempFile, videoOutcome >>
    /\ UNCHANGED nonVideoVars

\* Lines 750-770: getVideosOperation settles.
PollReturns ==
    /\ videoPc = "awaitPoll"
    /\ \/ VideoThrows("provider error") /\ UNCHANGED operation
       \/ \E op \in Operations, dirOk \in BOOLEAN :
            operation' = op /\ AfterOperation(op, dirOk)
    /\ UNCHANGED << videoApiKey, anchorImages, providerImages, elapsed, polls, tempFile >>
    /\ UNCHANGED nonVideoVars

\* Lines 772-798: the download settles; the file is read, then removed.
\* A failed download may or may not have left a file behind; a failed read
\* goes to the catch block at once; a failed unlink is ignored.
DownloadReturns ==
    /\ videoPc = "awaitDownload"
    /\ \/ \E left \in {"none", "present"} :
            tempFile' = left /\ VideoThrows("download failed")
       \/ tempFile' = "present" /\ VideoThrows("read failed")
       \/ \E unlinked \in BOOLEAN :
            /\ tempFile' = IF unlinked THEN "removed" ELSE "present"
            /\ videoOutcome' = << [threw |-> FALSE, msg |-> ""] >>
            /\ videoPc' = "returned"
    /\ UNCHANGED << videoApiKey, anchorImages, providerImages, operation, elapsed, polls >>
    /\ UNCHANGED nonVideoVars

NextVideo ==
    \/ StartVideo
    \/ OperationStarted
    \/ TimerFires
    \/ PollReturns
    \/ DownloadReturns

InitVideo == VideoInit /\ DispatcherIdle /\ VariationIdle /\ PromptIdle /\ ReaderIdle /\ FallbackIdle /\ AuthIdle /\ TabIdle

SpecVideo == InitVideo /\ [][NextVideo]_vars

\* Every awaited promise of generateVideo settles and every timer fires.
SpecVideoFair == InitVideo /\ [][NextVideo]_vars /\ WF_vars(NextVideo)

\* =========================================================================
\* generateFallbackVariations on its own  (src/unnamed/part_004)
\* =========================================================================
MaxFallbackCount == 7

\* the strings a varianceFactors list may hold: the four factors and one
\* that the function does not know
FactorNames == Factors \cup {"mood"}

FallbackInit ==
    /\ \E count \in 0..MaxFallbackCount, factors \in SUBSET FactorNames :
           fbIn = << [count |-> count, factors |-> factors] >>
    /\ fbOut = << >>

\* one call of generateFallbackVariations with the arguments of fbIn
CallGenerateFallbackVariations ==
    /\ Len(fbIn) = 1 /\ fbOut = << >>
    /\ fbOut' = << generateFallbackVariations(fbIn[1].count, fbIn[1].factors) >>
    /\ UNCHANGED fbIn
    /\ UNCHANGED nonFallbackVars

NextFallback == CallGenerateFallbackVariations

InitFallback ==
    FallbackInit /\ DispatcherIdle /\ VariationIdle /\ PromptIdle /\ ReaderIdle /\ VideoIdle /\ AuthIdle /\ TabIdle

SpecFallback == InitFallback /\ [][NextFallback]_vars

\* =========================================================================
\* AuthProvider  (src/src/lib/auth.tsx)
\* =========================================================================
MaxAuthCalls == 3

VALID_CREDENTIALS == [username |-> "rohan-testing", password |-> "testing123"]

\* what login is called with
LoginInputs ==
    [ username : {"rohan-testing", "Rohan-Testing", ""},
      password : {"testing123", "testing1234"} ]

\* JSON.stringify({ username, authenticated: true }) as login stores it
StoredAuth(name) == [username |-> name, authenticated |-> TRUE]

\* What localStorage holds when the provider is mounted: nothing, the entry
\* an earlier login stored, or an entry that is not authenticated.
StoredAtMount ==
    { << >>, << StoredAuth(VALID_CREDENTIALS.username) >>,
      << [username |-> VALID_CREDENTIALS.username, authenticated |-> FALSE] >> }

\* useState(false), useState(null), useState(true)
AuthInit ==
    /\ isLoading = TRUE
    /\ isAuthenticated = FALSE
    /\ username = << >>
    /\ authStorage \in StoredAtMount
    /\ authLog = << >>
    /\ mounted = TRUE

\* Lines 25-36: the effect that runs once after the first render.
AuthMount ==
    /\ mounted /\ isLoading
    /\ IF Len(authStorage) = 1 /\ authStorage[1].authenticated
       THEN /\ isAuthenticated' = TRUE
            /\ username' = << authStorage[1].username >>
       ELSE UNCHANGED << isAuthenticated, username >>
    /\ isLoading' = FALSE
    /\ UNCHANGED << authStorage, authLog, mounted >>
    /\ UNCHANGED nonAuthVars

\* login that accepts every user name with the valid password
LoginAnyUser ==
    /\ mounted /\ ~ isLoading
    /\ Len(authLog) < MaxAuthCalls
    /\ \E input \in LoginInputs :
         IF input.password = VALID_CREDENTIALS.password
         THEN /\ isAuthenticated' = TRUE
              /\ username' = << input.username >>
              /\ authStorage' = << StoredAuth(input.username) >>
              /\ authLog' = Append(authLog, [call |-> "login", input |-> << input >>,
                                             returned |-> TRUE])
         ELSE /\ authLog' = Append(authLog, [call |-> "login", input |-> << input >>,
                                             returned |-> FALSE])
              /\ UNCHANGED << isAuthenticated, username, authStorage >>
    /\ UNCHANGED << isLoading, mounted >>
    /\ UNCHANGED nonAuthVars

\* Lines 38-53: login.  The children, and with them every caller of login
\* and logout, are rendered only when isLoading is false.
Login ==
    /\ mounted /\ ~ isLoading
    /\ Len(authLog) < MaxAuthCalls
    /\ \E input \in LoginInputs :
         IF input.username = VALID_CREDENTIALS.username
            /\ input.password = VALID_CREDENTIALS.password
         THEN /\ isAuthenticated' = TRUE
              /\ username' = << input.username >>
              /\ authStorage' = << StoredAuth(input.username) >>
              /\ authLog' = Append(authLog, [call |-> "login", input |-> << input >>,
                                             returned |-> TRUE])
         ELSE /\ authLog' = Append(authLog, [call |-> "login", input |-> << input >>,
                                             returned |-> FALSE])
              /\ UNCHANGED << isAuthenticated, username, authStorage >>
    /\ UNCHANGED << isLoading, mounted >>
    /\ UNCHANGED nonAuthVars

\* Lines 55-59: logout.
Logout ==
    /\ mounted /\ ~ isLoading
    /\ Len(authLog) < MaxAuthCalls
    /\ isAuthenticated' = FALSE
    /\ username' = << >>
    /\ authStorage' = << >>
    /\ authLog' = Append(authLog, [call |-> "logout", input |-> << >>, returned |-> TRUE])
    /\ UNCHANGED << isLoading, mounted >>
    /\ UNCHANGED nonAuthVars

NextAuth ==
    \/ AuthMount
    \/ Login
    \/ Logout

InitAuth ==
    AuthInit /\ DispatcherIdle /\ VariationIdle /\ PromptIdle /\ ReaderIdle /\ VideoIdle
             /\ FallbackIdle /\ TabIdle

SpecAuth == InitAuth /\ [][NextAuth]_vars

\* =========================================================================
\* VideoEngineTab and its FileDropzone  (src/unnamed/part_006, part_007)
\* =========================================================================
\* A file is the number of its upload: the first file dropped is 1.
MaxTabFiles == 4

\* the maxFiles prop the tab gives its dropzone
maxFiles == 3

\* seq.slice(0, n) for n >= 0
Slice(seq, n) == SubSeq(seq, 1, IF Len(seq) > n THEN n ELSE Len(seq))

\* the purposes the user picks in the model, out of IMAGE_PURPOSE_OPTIONS
PurposePicks == {"keyframe", "custom"}

\* i === 0 ? "product" : i === 1 ? "environment" : "character"  (0-based k)
DefaultPurpose(k) == IF k = 0 THEN "product" ELSE IF k = 1 THEN "environment" ELSE "character"

\* handleFilesChange(files): what the four state setters are called with.
\* The purposes and descriptions are carried over by position.
handleFilesChange(newFiles) ==
    LET selectedFiles == Slice(newFiles, 3)
    IN [ anchorImages |-> selectedFiles,
         imagePurposes |->
             [ k \in 1..Len(selectedFiles) |->
                 IF k <= Len(imagePurposes) /\ Truthy(imagePurposes[k])
                 THEN imagePurposes[k] ELSE DefaultPurpose(k - 1) ],
         customPurposeDescriptions |->
             [ k \in 1..Len(selectedFiles) |->
                 IF k <= Len(customPurposeDescriptions)
                 THEN customPurposeDescriptions[k] ELSE "" ],
         videoLength |-> IF Len(selectedFiles) > 0 THEN "8s" ELSE tabVideoLength ]

\* useState([]) of the tab and of the dropzone
TabInit ==
    /\ files = << >>
    /\ tabAnchorImages = << >>
    /\ imagePurposes = << >>
    /\ customPurposeDescriptions = << >>
    /\ tabVideoLength = "6s"
    /\ uploads = 0
    /\ assigned = [ file \in {} |-> "" ]

\* what the tab shows for the file at position k after a files change
Shown(change, k) ==
    [ purpose |-> change.imagePurposes[k],
      customDescription |-> change.customPurposeDescriptions[k] ]

\* handleDrop / handleFileInput of the dropzone with n files, followed by
\* the tab's handleFilesChange.  A file that is new to the tab is assigned
\* what the tab shows for it.
AddFiles ==
    \E n \in 1..2 :
        /\ uploads + n <= MaxTabFiles
        /\ LET droppedFiles == Slice([ k \in 1..n |-> uploads + k ], maxFiles - Len(files))
               newFiles == Slice(files \o droppedFiles, maxFiles)
               change == handleFilesChange(newFiles)
           IN /\ files' = newFiles
              /\ tabAnchorImages' = change.anchorImages
              /\ imagePurposes' = change.imagePurposes
              /\ customPurposeDescriptions' = change.customPurposeDescriptions
              /\ tabVideoLength' = change.videoLength
              /\ assigned' =
                     [ file \in DOMAIN assigned \cup { droppedFiles[k] : k \in 1..Len(droppedFiles) } |->
                         IF file \in DOMAIN assigned THEN assigned[file]
                         ELSE Shown(change, CHOOSE k \in 1..Len(newFiles) : newFiles[k] = file) ]
        /\ uploads' = uploads + n
        /\ UNCHANGED nonTabVars

\* removeFile(index) of the dropzone, followed by the tab's handleFilesChange
RemoveFile ==
    \E index \in 0..(Len(files) - 1) :
        LET newFiles == SelectSeq([ k \in 1..Len(files) |-> IF k - 1 = index THEN 0 ELSE files[k] ],
                                  LAMBDA file : file # 0)
            change == handleFilesChange(newFiles)
        IN /\ files' = newFiles
           /\ tabAnchorImages' = change.anchorImages
           /\ imagePurposes' = change.imagePurposes
           /\ customPurposeDescriptions' = change.customPurposeDescriptions
           /\ tabVideoLength' = change.videoLength
           /\ UNCHANGED << uploads, assigned >>
           /\ UNCHANGED nonTabVars

\* handlePurposeChange(index, purpose): one selector per anchor image
PurposeChange ==
    \E index \in 0..(Len(tabAnchorImages) - 1), purpose \in PurposePicks :
        /\ index < Len(imagePurposes)
        /\ imagePurposes' = [ imagePurposes EXCEPT ![index + 1] = purpose ]
        /\ assigned' = [ assigned EXCEPT ![tabAnchorImages[index + 1]].purpose = purpose ]
        /\ UNCHANGED << files, tabAnchorImages, customPurposeDescriptions, tabVideoLength, uploads >>
        /\ UNCHANGED nonTabVars

\* handleCustomDescriptionChange(index, description): one input per entry of
\* imagePurposes that is "custom"
CustomDescriptionChange ==
    \E index \in 0..(Len(imagePurposes) - 1) :
        /\ imagePurposes[index + 1] = "custom"
        /\ index < Len(customPurposeDescriptions) /\ index < Len(tabAnchorImages)
        /\ customPurposeDescriptions' =
               [ customPurposeDescriptions EXCEPT ![index + 1] = "our mascot" ]
        /\ assigned' = [ assigned EXCEPT ![tabAnchorImages[index + 1]].customDescription
                                             = "our mascot" ]
        /\ UNCHANGED << files, tabAnchorImages, imagePurposes, tabVideoLength, uploads >>
        /\ UNCHANGED nonTabVars

NextTab ==
    \/ AddFiles
    \/ RemoveFile
    \/ PurposeChange
    \/ CustomDescriptionChange

InitTab ==
    TabInit /\ DispatcherIdle /\ VariationIdle /\ PromptIdle /\ ReaderIdle /\ VideoIdle
            /\ FallbackIdle /\ AuthIdle

SpecTab == InitTab /\ [][NextTab]_vars

\* =========================================================================
\* Properties
\* =========================================================================
\* the events of the given types, in order
EventsOfType(types) == SelectSeq(events, LAMBDA e : e.type \in types)

NumTerminal == Len(EventsOfType({"result", "error"}))

LastEvent == events[Len(events)]

CallsTo(fn) == SelectSeq(calls, LAMBDA c : c.fn = fn)

\* C1: every request of either endpoint ends with exactly one terminal event
\* (one result or one error, never both, never none) on a closed stream:
\* there is never more than one terminal event, and once the callback has
\* finished the stream is closed and holds exactly one.
C1_ExactlyOneTerminalEvent ==
    /\ NumTerminal <= 1
    /\ (pc = "done") => (closed /\ NumTerminal = 1)
    /\ closed => (pc = "done")

\* a three-variant image request that ended with its result event
C1_Witness ==
    /\ pc = "done" /\ closed
    /\ Len(EventsOfType({"result"})) = 1
    /\ Len(results) = 3

\* C2: once the image or the video branch has ended with its result event or
\* with the error event of its own catch block (pc = "finalize"), the next
\* step appends exactly one status event with progress 100 right after that
\* terminal event and closes the stream; nothing is enqueued after the close.
C2_FinalStatusThenClose ==
    [][ /\ (pc = "finalize") =>
             /\ ~closed
             /\ Len(events) > 0 /\ LastEvent.type \in {"result", "error"}
             /\ StatusEvent(100) \notin { events[k] : k \in 1..Len(events) }
             /\ events' = Append(events, StatusEvent(100))
             /\ closed'
        /\ closed => (closed' /\ events' = events) ]_vars

\* a handled generation failure followed by the final status and the close
C2_Witness ==
    /\ pc = "done" /\ closed /\ Len(events) >= 2
    /\ LastEvent = StatusEvent(100)
    /\ events[Len(events) - 1].type = "error"

ProgressValues == [ k \in 1..Len(EventsOfType({"status"})) |-> EventsOfType({"status"})[k].progress ]

NonDecreasing(seq) == \A k \in 1..(Len(seq) - 1) : seq[k] <= seq[k + 1]

\* C3 as stated: the progress values never decrease and, on every path, the
\* last event before the close is a status event with progress 100.
C3_Original ==
    /\ NonDecreasing(ProgressValues)
    /\ closed => (Len(events) > 0 /\ LastEvent = StatusEvent(100))

\* C3 amended: the progress values never decrease; the stream is closed
\* either at the end of the image or video branch, and then the last event
\* is a status event with progress 100, or on an early exit (form or
\* configuration unusable, trend expansion failing), and then the last event
\* is the error event and no status event with progress 100 was sent.
C3_ProgressMonotoneAndFinal ==
    /\ [](NonDecreasing(ProgressValues) /\ \A k \in 1..Len(ProgressValues) : ProgressValues[k] <= 100)
    /\ [][ (~closed /\ closed') =>
             \/ /\ pc = "finalize"
                /\ events'[Len(events')] = StatusEvent(100)
             \/ /\ pc \in {"start", "awaitTrend", "awaitVideoTrend"}
                /\ events'[Len(events')].type = "error"
                /\ StatusEvent(100) \notin { events'[k] : k \in 1..Len(events') } ]_vars

\* a three-variant image request, closed after 5,10,15,20,22,25,45,65,90,95,100
C3_Witness ==
    /\ closed /\ LastEvent = StatusEvent(100)
    /\ ProgressValues = << 5, 10, 15, 20, 22, 25, 45, 65, 90, 95, 100 >>

\* ---- durations ---------------------------------------------------------
\* the durations, in seconds, that a section states
SectionSeconds(section) ==
    { ParseInt(StripS(section.body[k].value)) :
        k \in { n \in 1..Len(section.body) : section.body[n].label = "duration" } }
    \cup { ParseInt(section.body[k].value) :
        k \in { n \in 1..Len(section.body) : section.body[n].label = "seconds" } }
    \cup (IF section.name = "VIDEO SPECIFICATIONS"
          THEN { section.refs[k] : k \in 1..Len(section.refs) } ELSE {})

\* the durations, in seconds, that a prompt states
StatedSeconds(prompt) == UNION { SectionSeconds(prompt[k]) : k \in 1..Len(prompt) }

StructuredVideoCalls ==
    IF endpoint = "structured" THEN CallsTo("generateVideo") ELSE << >>

ExpectedDuration ==
    IF Len(anchorImageBuffers(form)) > 0 THEN "8s"
    ELSE IF form.config.videoLength # "" THEN form.config.videoLength
    ELSE "6s"

VariationReturned == Len(vsOut) = 1 /\ ~ vsOut[1].threw

\* the call went to the provider: at least two variants, some factor, a client
VariationAsked == vsIn.variantCount >= 2 /\ vsIn.factors # {} /\ vsIn.apiKey

\* C6 as stated: for N >= 2 variants and some variance factor the call
\* returns exactly N - 1 entries, whatever number of entries the provider sent.
C6_Original ==
    (VariationReturned /\ VariationAsked) =>
        /\ vsOut[1].value.kind = "array"
        /\ Len(vsOut[1].value.items) = vsIn.variantCount - 1

\* what JSON.parse yields for the provider's text, after fence stripping
ParsedUpstream == JsonParse(StripFences(vsIn.upstream.text), vsIn.factors)

\* the provider's text cannot be used as a list of specs
UnusableResponse ==
    /\ vsIn.upstream.outcome = "text"
    /\ (ParsedUpstream.threw \/ ParsedUpstream.value.kind # "array")

\* C7 as stated: a response that is not valid JSON after fence stripping, or
\* whose JSON value is not an array, is never returned and never raised: the
\* call returns the deterministic fallback variations.
C7_Original ==
    (Len(vsOut) = 1 /\ VariationAsked /\ UnusableResponse) =>
        /\ ~ vsOut[1].threw
        /\ vsOut[1].value =
               ArrayValue(generateFallbackVariations(vsIn.variantCount - 1, vsIn.factors))

\* ---- failures of the AI-assisted sub-steps -----------------------------
\* C8 as stated: however the variation-spec step fails, the request is not
\* aborted: when generateVariationSpecs settles, no error event is sent and
\* the image dispatch loop is entered.
C8_Original ==
    [][ (pc = "awaitSpecs") => (pc' = "loop" /\ events' = events) ]_vars

\* C9 as stated: a failing trend expansion does not abort the request: when
\* the trend-expansion call settles, no error event is sent, the stream stays
\* open and the request goes on to build its prompt.
C9_Original ==
    [][ (pc \in {"awaitTrend", "awaitVideoTrend"}) =>
            (~ closed' /\ events' = events /\ pc' \in {"buildPrompt", "videoBuild"}) ]_vars

\* ---- image dispatch loop -----------------------------------------------
\* C10: in the structured endpoint, once a generateImage call has failed (the
\* branch is over and one call more was made than results were collected),
\* that call is the last one, the request has exactly one error event and no
\* result event.
C10_VariantFailureAborts ==
    (endpoint = "structured" /\ pc \in {"finalize", "done"}
         /\ Len(CallsTo("generateImage")) > Len(results)) =>
        /\ Len(CallsTo("generateImage")) = Len(results) + 1
        /\ Len(EventsOfType({"error"})) = 1
        /\ Len(EventsOfType({"result"})) = 0

\* the second of three variants failed: two calls, one collected payload
C10_Witness ==
    /\ endpoint = "structured" /\ pc = "done"
    /\ variantCount(form.config) = 3
    /\ Len(CallsTo("generateImage")) = 2
    /\ Len(results) = 1
    /\ Len(EventsOfType({"error"})) = 1

\* ---- missing configuration ---------------------------------------------
\* C11: a request of either endpoint that carries no configuration part never
\* gets a status event and never starts an external call; once it has been
\* handled its stream is closed and holds the error event and nothing else.
C11_MissingConfigSingleError ==
    (form.kind = "missing" /\ pc # "idle") =>
        /\ calls = << >>
        /\ Len(EventsOfType({"status"})) = 0
        /\ (pc = "start") => (events = << >> /\ ~ closed)
        /\ (pc # "start") =>
               /\ pc = "done" /\ closed
               /\ events = << ErrorEvent("No configuration provided") >>

\* the request without a configuration part has been answered
C11_Witness ==
    /\ form.kind = "missing" /\ pc = "done" /\ closed
    /\ Len(events) = 1 /\ events[1].type = "error"

\* ---- image prompt sections ---------------------------------------------
\* the sections of a prompt, without the separators
SectionsOf(prompt) == SelectSeq(prompt, LAMBDA s : s # Separator)

\* how many sections of the prompt carry the given header
CountNamed(prompt, name) == Len(SelectSeq(prompt, LAMBDA s : s.name = name))

InteractionHeader == "REFERENCE IMAGES INTERACTION"

MoodboardHeader == "LOOK & FEEL REFERENCE (MOODBOARD)"

\* the sections of the prompt other than the interaction and moodboard ones
\* are those of the same call made without interaction text and moodboard
OnlyOptionalSectionsAdded ==
    SelectSeq(SectionsOf(spOut[1]), LAMBDA s : s.name \notin {InteractionHeader, MoodboardHeader})
        = StructuredPromptSections([ spIn[1] EXCEPT !.referenceImageInteraction = "",
                                                    !.moodboardImageCount = 0 ])

\* C12 as stated: the prompt of buildStructuredPrompt has the moodboard
\* section exactly when there are moodboard images and the interaction
\* section exactly when interaction text is supplied, for every reference
\* image count, and nothing else changes with them.
C12_Original ==
    (Len(spOut) = 1) =>
        /\ CountNamed(spOut[1], MoodboardHeader)
               = (IF spIn[1].moodboardImageCount > 0 THEN 1 ELSE 0)
        /\ CountNamed(spOut[1], InteractionHeader)
               = (IF spIn[1].referenceImageInteraction # "" THEN 1 ELSE 0)
        /\ OnlyOptionalSectionsAdded

\* C12 amended: the moodboard section is present exactly when there are
\* moodboard images; the interaction section is present exactly when
\* interaction text is supplied and there are at least two reference images
\* (with zero or one reference image the text adds no section); nothing else
\* changes with them.
C12_SectionPresence ==
    (Len(spOut) = 1) =>
        /\ CountNamed(spOut[1], MoodboardHeader)
               = (IF spIn[1].moodboardImageCount > 0 THEN 1 ELSE 0)
        /\ CountNamed(spOut[1], InteractionHeader)
               = (IF spIn[1].referenceImageInteraction # ""
                     /\ spIn[1].referenceImageCount >= 2 THEN 1 ELSE 0)
        /\ OnlyOptionalSectionsAdded

\* interaction text with two reference images and one moodboard image:
\* both optional sections are in the prompt
C12_Witness ==
    /\ Len(spOut) = 1
    /\ spIn[1].referenceImageInteraction # "" /\ spIn[1].referenceImageCount = 2
    /\ spIn[1].moodboardImageCount = 1
    /\ CountNamed(spOut[1], InteractionHeader) = 1
    /\ CountNamed(spOut[1], MoodboardHeader) = 1

\* the position of a section header in the fixed order
SectionRank(name) ==
    CASE name = InteractionHeader -> 1
      [] name = "CREATIVE TREND" -> 2
      [] name = "BRAND GUIDELINES" -> 3
      [] name = "COLOR PALETTE" -> 4
      [] name = MoodboardHeader -> 5
      [] name = "IMAGE SPECIFICATIONS" -> 6
      [] name = "VARIATION SPECIFICATIONS FOR VARIANT" -> 7
      [] OTHER -> 0

\* C13: the prompt of buildStructuredPrompt alternates sections and
\* separators, starting and ending with a section (one separator less than
\* sections, none empty or doubled); its sections follow the fixed order,
\* each at most once; brand guidelines, color palette and image specification
\* are always there; and with no interaction, no trend, no moodboard and no
\* variation the prompt has exactly these three sections.
C13_SectionOrderAndSeparators ==
    (Len(spOut) = 1) =>
        LET prompt == spOut[1]
            sections == SectionsOf(prompt)
        IN /\ Len(prompt) = (2 * Len(sections)) - 1
           /\ \A k \in 1..Len(prompt) : (prompt[k] = Separator) <=> (k % 2 = 0)
           /\ \A k \in 1..Len(sections) : SectionRank(sections[k].name) > 0
           /\ \A k \in 1..(Len(sections) - 1) :
                  SectionRank(sections[k].name) < SectionRank(sections[k + 1].name)
           /\ \A name \in {"BRAND GUIDELINES", "COLOR PALETTE", "IMAGE SPECIFICATIONS"} :
                  CountNamed(prompt, name) = 1
           /\ (/\ spIn[1].variantNumber <= 1 /\ spIn[1].creativeTrend.type = "skip"
               /\ spIn[1].moodboardImageCount = 0 /\ spIn[1].referenceImageInteraction = "")
                  => Len(sections) = 3

\* a prompt with all seven sections and six separators
C13_Witness ==
    /\ Len(spOut) = 1
    /\ Len(SectionsOf(spOut[1])) = 7
    /\ Len(spOut[1]) = 13

\* C14 as stated: with trend type preset and a preset id that is not an
\* entry of the catalog, the prompt of either builder has no creative-trend
\* section.
C14_Original ==
    /\ (Len(spOut) = 1 /\ spIn[1].creativeTrend.type = "preset"
            /\ spIn[1].creativeTrend.presetId \notin DOMAIN CREATIVE_TREND_PRESETS)
           => CountNamed(spOut[1], "CREATIVE TREND") = 0
    /\ (Len(vpOut) = 1 /\ vpIn[1].creativeTrend.type = "preset"
            /\ vpIn[1].creativeTrend.presetId \notin DOMAIN VIDEO_CREATIVE_TREND_PRESETS)
           => CountNamed(vpOut[1], "CREATIVE TREND") = 0

\* ---- stream reader -----------------------------------------------------
\* the number of events whose bytes have all been delivered to the reader
DeliveredEvents ==
    (Len(EncodeEvents(1, Len(sent))) - Len(wire)) \div Len(EncodeEvent(1))

\* C15: however the body is cut into chunks, the events the reader has
\* processed are exactly the events delivered in full so far, each once and
\* in the order the endpoint enqueued them; statusHistory holds the status
\* events among them in that order; when the stream is done, every event the
\* endpoint enqueued has been processed.
C15_ReaderIsFifo ==
    (readerPc # "idle") =>
        /\ parsedEvents = [ k \in 1..DeliveredEvents |-> k ]
        /\ statusHistory = SelectSeq(parsedEvents, LAMBDA k : sent[k] = "status")
        /\ (readerPc = "done") => (Len(parsedEvents) = Len(sent))

\* two status events processed, the chunk ended inside a wide character of
\* the third event
C15_Witness ==
    /\ readerPc = "reading"
    /\ Len(sent) = 3
    /\ Len(decoderPending) = 1 /\ Len(buffer) > 0
    /\ statusHistory = << 1, 2 >>

\* ---- generateVideo -----------------------------------------------------
VideoFinished == videoPc \in {"returned", "threw"}

\* C16: every generateVideo call ends; the poll loop makes at most 30 polls,
\* one per 10 s of counted waiting and never beyond the 300 s ceiling; a call
\* never returns a result for an operation that is not done; and when 30
\* polls have come back without the operation being done, the call fails with
\* the timeout error.
C16_PollLoopTerminates ==
    /\ <>VideoFinished
    /\ [](polls <= 30 /\ elapsed = polls * pollInterval /\ elapsed <= maxWaitTime)
    /\ []((VideoFinished /\ ~ operation.done) => videoOutcome[1].threw)
    /\ []((VideoFinished /\ ~ operation.done /\ polls = 30
              /\ videoOutcome[1].msg # "provider error")
             => videoOutcome[1] = [threw |-> TRUE, msg |-> TimeoutMessage])

\* thirty polls, the operation still not done: the timeout error
C16_Witness ==
    /\ videoPc = "threw" /\ polls = 30 /\ ~ operation.done
    /\ videoOutcome[1].msg = TimeoutMessage

\* C17 as stated: when generateVideo has reported its outcome, the downloaded
\* file is gone on every path on which the download was started, a failed
\* cleanup (which leaves the file and still returns the result) aside.
C17_Original ==
    /\ (videoPc = "threw") => (tempFile # "present")
    /\ (videoPc = "returned") =>
           (~ videoOutcome[1].threw /\ tempFile \in {"removed", "present"})

\* ---- sequential dispatch -----------------------------------------------
\* the positions at which the start() callback awaits an external call
AwaitStates == {"awaitTrend", "awaitSpecs", "awaitImage", "awaitVideoTrend",
                "awaitVideo", "awaitStorylines"}

\* the external call awaited at a position
AwaitedFn(at) ==
    CASE at = "awaitTrend" -> "generateCreativeTrendFromDescription"
      [] at = "awaitSpecs" -> "generateVariationSpecs"
      [] at = "awaitImage" -> "generateImage"
      [] at = "awaitVideoTrend" -> "generateVideoCreativeTrendFromDescription"
      [] at = "awaitVideo" -> "generateVideo"
      [] at = "awaitStorylines" -> "generateAIStorylines"
      [] OTHER -> ""

\* C18: within one request at most one external call is in flight: the
\* callback is either at a position that awaits the call started last, or at
\* a position with no call in flight; a step starts at most one call and only
\* when none is in flight; the step on which a call settles starts none; and
\* a generateImage call is started only when every earlier generateImage
\* call has returned its result.
C18_SequentialDispatch ==
    /\ []((pc \in AwaitStates) =>
              (Len(calls) > 0 /\ calls[Len(calls)].fn = AwaitedFn(pc)))
    /\ [][ /\ (calls' # calls) =>
                /\ pc \notin AwaitStates /\ pc' \in AwaitStates
                /\ Len(calls') = Len(calls) + 1
                /\ SubSeq(calls', 1, Len(calls)) = calls
                /\ (calls'[Len(calls')].fn = "generateImage") =>
                       (Len(CallsTo("generateImage")) = Len(results) /\ i = Len(results))
           /\ (pc \in AwaitStates) => (pc' \notin AwaitStates /\ calls' = calls) ]_vars

\* trend expansion, variation specs and three image calls, one after another
C18_Witness ==
    /\ pc = "done" /\ Len(calls) = 5
    /\ Len(CallsTo("generateImage")) = 3 /\ Len(results) = 3

\* ---- the Custom trend option -------------------------------------------
\* the prompt has a creative-trend section that holds the user's custom text
HasCustomTrend(prompt) ==
    \E k \in 1..Len(prompt) :
        /\ prompt[k].name = "CREATIVE TREND"
        /\ \E n \in 1..Len(prompt[k].body) : prompt[k].body[n].value = CustomTrendText

\* C19 as stated: for a request made from the image (video) tab with the
\* Custom option selected and a custom prompt entered, the prompt of every
\* generateImage (generateVideo) call has a creative-trend section holding
\* that custom text.
C19_Original ==
    \A k \in 1..Len(calls) :
        /\ (calls[k].fn = "generateImage" /\ form.config.creativeTrendType = "custom")
               => HasCustomTrend(calls[k].prompt)
        /\ (calls[k].fn = "generateVideo" /\ form.config.videoCreativeTrendType = "custom")
               => HasCustomTrend(calls[k].prompt)

\* ---- per-variant prompt ------------------------------------------------
\* the values of the lines of a section, in order
LineValues(section) == [ n \in 1..Len(section.body) |-> section.body[n].value ]

\* C20: in the structured endpoint the k-th generateImage call is the one of
\* variant index k - 1.  Index 0 is sent the base prompt unchanged.  An index
\* idx > 0 is sent the base prompt, the separator and the addendum headed
\* with variant number idx + 1 and filled from the entry at position idx - 1
\* of variationSpecs when there is such an entry, and the base prompt
\* unchanged when there is none (list empty or too short).
C20_PromptSelection ==
    (endpoint = "structured") =>
        \A k \in 1..Len(CallsTo("generateImage")) :
            LET prompt == CallsTo("generateImage")[k].prompt
                idx == k - 1
                entry == SpecAt(variationSpecs, idx - 1)
            IN IF idx > 0 /\ Len(entry) > 0
               THEN /\ Len(prompt) = Len(structuredPrompt) + 2
                    /\ SubSeq(prompt, 1, Len(structuredPrompt)) = structuredPrompt
                    /\ prompt[Len(prompt) - 1] = Separator
                    /\ prompt[Len(prompt)].name = "VARIATION SPECIFICATIONS FOR VARIANT"
                    /\ prompt[Len(prompt)].refs = << idx + 1 >>
                    /\ LineValues(prompt[Len(prompt)])
                           = << entry[1].lighting, entry[1].environment,
                                entry[1].cameraAngle, entry[1].materials >>
               ELSE prompt = structuredPrompt

\* three variants and a list of one spec: the second call carries the
\* addendum, the third one the base prompt
C20_Witness ==
    /\ endpoint = "structured" /\ pc = "done"
    /\ Len(CallsTo("generateImage")) = 3
    /\ variationSpecs.kind = "array" /\ Len(variationSpecs.items) = 1
    /\ CallsTo("generateImage")[2].prompt # structuredPrompt
    /\ CallsTo("generateImage")[3].prompt = structuredPrompt

\* ---- fields of the variation addendum ----------------------------------
\* the variance factor that a line of the variation addendum renders
FactorOfLabel(label) ==
    CASE label = "Lighting" -> "lighting"
      [] label = "Environment" -> "environment"
      [] label = "Camera Angle" -> "camera-angle"
      [] label = "Materials" -> "materials"
      [] OTHER -> ""

\* the variation addenda of a prompt
VariationAddenda(prompt) ==
    SelectSeq(prompt, LAMBDA s : s.name = "VARIATION SPECIFICATIONS FOR VARIANT")

\* C21 as stated: in every prompt the structured endpoint sends to
\* generateImage, each line of the variation addendum belongs to a requested
\* variance factor and carries a value (not empty, not undefined).
C21_Original ==
    (endpoint = "structured") =>
        \A k \in 1..Len(CallsTo("generateImage")) :
            LET addenda == VariationAddenda(CallsTo("generateImage")[k].prompt)
            IN \A a \in 1..Len(addenda) : \A n \in 1..Len(addenda[a].body) :
                   /\ FactorOfLabel(addenda[a].body[n].label) \in form.config.varianceFactors[1]
                   /\ Truthy(addenda[a].body[n].value)

\* ---- fallback variations -----------------------------------------------
\* the phrase entry idx must hold for a field: the (idx mod 5)-th phrase
\* of the field's list when its factor was requested, the generic one if not
ExpectedPhrase(factor, options, generic, idx, factors) ==
    IF factor \in factors THEN options[(idx % 5) + 1] ELSE generic

\* C22: generateFallbackVariations(count, factors) returns exactly count
\* entries; every entry has its four fields non-empty; the field of a
\* requested factor of entry i (0-based) is the (i mod 5)-th of the five
\* distinct phrases of that factor, the field of an unrequested factor is
\* that factor's generic phrase.
C22_FallbackVariations ==
    (Len(fbOut) = 1) =>
        LET list == fbOut[1]
            factors == fbIn[1].factors
        IN /\ Len(list) = fbIn[1].count
           /\ \A options \in {lightingOptions, environmentOptions, cameraOptions, materialOptions} :
                  /\ Len(options) = 5
                  /\ Cardinality({ options[k] : k \in 1..5 }) = 5
           /\ \A j \in 1..Len(list) :
                  /\ \A value \in { list[j].lighting, list[j].environment,
                                    list[j].cameraAngle, list[j].materials } : Truthy(value)
                  /\ list[j].lighting = ExpectedPhrase("lighting", lightingOptions,
                                                       "standard studio lighting", j - 1, factors)
                  /\ list[j].environment = ExpectedPhrase("environment", environmentOptions,
                                                          "clean studio background", j - 1, factors)
                  /\ list[j].cameraAngle = ExpectedPhrase("camera-angle", cameraOptions,
                                                          "standard product angle", j - 1, factors)
                  /\ list[j].materials = ExpectedPhrase("materials", materialOptions,
                                                        "natural product materials", j - 1, factors)

\* seven entries for lighting and materials: the sixth entry is back at the
\* first lighting phrase and holds the generic environment phrase
C22_Witness ==
    /\ Len(fbOut) = 1
    /\ fbIn[1].count = 7 /\ fbIn[1].factors = {"lighting", "materials"}
    /\ Len(fbOut[1]) = 7
    /\ fbOut[1][6].lighting = "soft natural lighting with diffused shadows"
    /\ fbOut[1][6].environment = "clean studio background"

\* ---- result payload ----------------------------------------------------
\* C23: an image request of either endpoint that got its result event has
\* made exactly N generateImage calls, N being config.variantCount or 1 when
\* that is absent or 0; it has one result event, which carries the payloads
\* of variants 1 to N in that order, the payload alone when N = 1 and the list
\* otherwise, with metadata count N.
C23_ResultCarriesAllVariants ==
    (form.config.protocolType = "IMAGE" /\ Len(EventsOfType({"result"})) > 0) =>
        LET N == IF form.config.variantCount \in { << >>, << 0 >> } THEN 1
                 ELSE form.config.variantCount[1]
            result == EventsOfType({"result"})[1]
        IN /\ Len(EventsOfType({"result"})) = 1
           /\ Len(EventsOfType({"error"})) = 0
           /\ Len(CallsTo("generateImage")) = N
           /\ result.result = [ k \in 1..N |-> k ]
           /\ result.bare = (N = 1)
           /\ result.count = N

\* three variants requested: three calls and a list of three payloads
C23_Witness ==
    /\ pc = "done" /\ form.config.protocolType = "IMAGE"
    /\ form.config.variantCount = << 3 >>
    /\ Len(CallsTo("generateImage")) = 3
    /\ Len(EventsOfType({"result"})) = 1
    /\ EventsOfType({"result"})[1].result = << 1, 2, 3 >>
    /\ ~ EventsOfType({"result"})[1].bare

\* ---- anchor images of a video request ----------------------------------
\* the failures generateVideo can report; none of them depends on the number
\* of anchor images
VideoFailures ==
    { ApiKeyMessage, "provider error", TimeoutMessage, NoVideoMessage, "mkdir failed",
      "download failed", "read failed" }

\* C24: for every number k of anchor images, generateVideo gets as far as the
\* provider request whenever a client can be made, fails only for reasons
\* that have nothing to do with k, and hands the provider at most 3 images,
\* which are the first ones of the k attachments in their order: what comes
\* after the third attachment is left out without an error.
C24_AtMostThreeAnchors ==
    /\ Len(providerImages) <= 3
    /\ Len(providerImages) <= Len(anchorImages)
    /\ \A n \in 1..Len(providerImages) : providerImages[n] = anchorImages[n]
    /\ (videoPc = "threw") => (videoOutcome[1].msg \in VideoFailures)
    /\ (videoPc = "threw" /\ videoOutcome[1].msg = ApiKeyMessage) => ~ videoApiKey
    /\ (videoPc \notin {"idle", "start", "threw"}) =>
           (Len(anchorImages) > 0 => Len(providerImages) > 0)

\* four anchor images: the call returned its video, the fourth image was not
\* handed to the provider
C24_Witness ==
    /\ videoPc = "returned" /\ ~ videoOutcome[1].threw
    /\ Len(anchorImages) = 4
    /\ Len(providerImages) > 0
    /\ anchorImages[4] \notin { providerImages[n] : n \in 1..Len(providerImages) }

\* ---- reference block of the video prompt -------------------------------
\* the "[image n]" indices that the reference-images block of a prompt names
ReferenceBlockIndices(prompt) ==
    UNION { { prompt[s].refs[n] : n \in 1..Len(prompt[s].refs) } :
              s \in { t \in 1..Len(prompt) : prompt[t].name = "REFERENCE IMAGES" } }

\* C30 as stated: for every generateVideo call of the structured endpoint,
\* the indices named in the reference-images block of the prompt are exactly
\* the 1-based positions of the images that the generateVideos request of
\* that call hands to the provider.
C30_Original ==
    \A k \in 1..Len(StructuredVideoCalls) :
        ReferenceBlockIndices(StructuredVideoCalls[k].prompt)
            = 1..Len(GenerateVideosImages(StructuredVideoCalls[k].images))

\* ---- legacy image loop -------------------------------------------------
\* C25 as stated: in the legacy endpoint, when a generateImage call settles
\* while variants remain, the loop goes on to the next variant, whether the
\* call succeeded or failed.
C25_Original ==
    [][ (endpoint = "legacy" /\ pc = "awaitImage" /\ i + 1 < variantCount(form.config))
            => (pc' = "loop" /\ i' = i + 1) ]_vars

\* ---- status shown by the dashboard -------------------------------------
\* the positions of sent that hold a result or an error event
TerminalPositions == { k \in 1..Len(sent) : sent[k] \in {"result", "error"} }

\* the body is one that an endpoint produces: status events, one terminal
\* event, and after it either nothing (early exit) or the final status event
IsEndpointStream ==
    /\ Cardinality(TerminalPositions) = 1
    /\ \A k \in TerminalPositions : k >= Len(sent) - 1

\* C26 as stated: once the stream of an endpoint has been read to its end,
\* generationStatus is complete when the stream held a result event and
\* error when it held an error event.
C26_Original ==
    (readerPc = "done" /\ IsEndpointStream) =>
        \A k \in TerminalPositions :
            generationStatus = (IF sent[k] = "result" THEN "complete" ELSE "error")

\* ---- moodboard indices --------------------------------------------------
\* the "[image k]" indices that the moodboard section of a prompt names
MoodboardIndices(prompt) ==
    UNION { { prompt[s].refs[n] : n \in 1..Len(prompt[s].refs) } :
              s \in { t \in 1..Len(prompt) : prompt[t].name = MoodboardHeader } }

\* the 1-based positions that the lookAndFeel images of the form have in a
\* reference-image list (a list of positions of form parts)
MoodboardPositions(images) ==
    { k \in 1..Len(images) : KeyClass(form.parts[images[k]]) = "lookAndFeel" }

\* C27 as stated: for every generateImage call of a structured image request
\* with a moodboard attachment, the indices named in the moodboard section of
\* the prompt are the positions of the moodboard images in the reference-image
\* list of the call, whatever the order of the parts in the form.
C27_Original ==
    (endpoint = "structured" /\ moodboardImageCount(form) > 0) =>
        \A k \in 1..Len(CallsTo("generateImage")) :
            MoodboardIndices(CallsTo("generateImage")[k].prompt)
                = MoodboardPositions(CallsTo("generateImage")[k].images)

\* ---- AuthProvider ------------------------------------------------------
\* the stored entry says authenticated
StoredAuthenticated == Len(authStorage) = 1 /\ authStorage[1].authenticated = TRUE

\* C28: once the mount effect has run, and after every sequence of login and
\* logout calls, isAuthenticated is true exactly when the entry is stored
\* with authenticated true, and username is set exactly when isAuthenticated
\* is true (and is then the stored user name); a login call with anything
\* but the valid user name and password returns false and leaves
\* isAuthenticated, username and the stored entry as they were.
C28_AuthStateMatchesStorage ==
    /\ []((mounted /\ ~ isLoading) =>
              /\ isAuthenticated <=> StoredAuthenticated
              /\ (Len(username) = 1) <=> isAuthenticated
              /\ isAuthenticated => (username = << authStorage[1].username >>))
    /\ [][ (authLog' # authLog /\ authLog'[Len(authLog')].call = "login"
              /\ authLog'[Len(authLog')].input
                     # << [username |-> "rohan-testing", password |-> "testing123"] >>)
             => /\ authLog'[Len(authLog')].returned = FALSE
                /\ UNCHANGED << isAuthenticated, username, authStorage >> ]_vars

\* a valid login followed by a login with a wrong password: still logged in,
\* the entry still stored
C28_Witness ==
    /\ mounted /\ ~ isLoading
    /\ Len(authLog) = 2
    /\ authLog[1].call = "login" /\ authLog[1].returned
    /\ authLog[2].call = "login" /\ ~ authLog[2].returned
    /\ isAuthenticated /\ StoredAuthenticated /\ username = << "rohan-testing" >>


\* C29: in the video tab every reference image keeps the purpose and the
\* custom description that were assigned to it, whatever images are added
\* or removed and whatever purposes are changed: the entry at the position
\* of an image is the one last assigned to that image.
C29_Original ==
    /\ tabAnchorImages = files
    /\ Len(imagePurposes) = Len(tabAnchorImages)
    /\ Len(customPurposeDescriptions) = Len(tabAnchorImages)
    /\ \A k \in 1..Len(tabAnchorImages) :
           /\ imagePurposes[k] = assigned[tabAnchorImages[k]].purpose
           /\ customPurposeDescriptions[k] = assigned[tabAnchorImages[k]].customDescription

====
